---- MODULE Spec2Model ----
(***************************************************************************)
(* Verification model of GitCard: the profile-card exporters               *)
(* (src/app/profiles/exporters.py), the image endpoint, the OAuth state    *)
(* store, the visitor count and the sync pass of the GitHub statistics.    *)
(*                                                                         *)
(* Strings are sequences of one-character strings, so that scanning,       *)
(* escaping and length arithmetic are computed character by character.     *)
(***************************************************************************)
EXTENDS Integers, Sequences, FiniteSets, TLC

VARIABLES
    pc,             \* position of the call under study: "start" | "done"
    gradient,       \* card.gradient
    primary_color,  \* card.primary_color (<<>> stands for None and "")
    colors,         \* value returned by _extract_gradient_colors (<<>> before the call)
    card,           \* the other fields of the ProfileCard record
    stats,          \* the statistics snapshot handed to the renderer
    renderer,       \* the renderer that was called ("none" before the call)
    output,         \* what the renderer returned (<<>> before the call)
    PLAYWRIGHT_AVAILABLE,  \* whether the playwright import succeeded
    request,        \* the image request: is there such a card, which format is asked
    step,           \* position of the image request ("await" while a call is awaited)
    line,           \* the source line of the call awaited (0 when none is)
    format,         \* the format parameter after its validation
    card_selector,  \* the selector generate_image_screenshot looks the card up with
    card_element,   \* whether the last query_selector found an element
    failure,        \* the exception generate_image_screenshot caught or let through
    screenshot,     \* what generate_image_screenshot returned
    response,       \* the status the image endpoint answered with (0 before)
    state_store,    \* _state_store: the entries (state, creation time)
    now,            \* datetime.utcnow(), in minutes
    issued,         \* the states generate_state has returned
    accepted,       \* per state, how often validate_state has returned True for it
    last,           \* the last OAuth operation and what it returned
    visitor_stats,  \* the rows of the table visitor_stats
    visits,         \* per record_visit request: its position and what it read
    github_stats,   \* the committed rows of the table github_stats, per user
    session,        \* the session of the sync pass: its state and pending rows
    sync            \* the sync pass: its position, its user and what happened

render_vars == <<pc, gradient, primary_color, colors, card, stats, renderer, output>>

image_vars == <<PLAYWRIGHT_AVAILABLE, request, step, line, format, card_selector, card_element, failure, screenshot, response>>

oauth_vars == <<state_store, now, issued, accepted, last>>

visit_vars == <<visitor_stats, visits>>

sync_vars == <<github_stats, session, sync>>

vars == <<render_vars, image_vars, oauth_vars, visit_vars, sync_vars>>

\* no image request is under way
ImageIdle ==
    /\ PLAYWRIGHT_AVAILABLE = TRUE
    /\ request = <<>>
    /\ step = "idle"
    /\ line = 0
    /\ format = ""
    /\ card_selector = ""
    /\ card_element = FALSE
    /\ failure = <<>>
    /\ screenshot = "pending"
    /\ response = 0

\* the OAuth state store as the module is imported
OAuthIdle ==
    /\ state_store = {}
    /\ now = 0
    /\ issued = {}
    /\ accepted = <<>>
    /\ last = <<>>

\* no visit is being recorded
VisitIdle ==
    /\ visitor_stats = <<>>
    /\ visits = <<>>

\* no sync pass is under way
SyncIdle ==
    /\ github_stats = <<>>
    /\ session = <<>>
    /\ sync = <<>>

\* no renderer call is under study
RenderIdle ==
    /\ pc = "idle"
    /\ gradient = <<>>
    /\ primary_color = <<>>
    /\ colors = <<>>
    /\ card = <<>>
    /\ stats = <<>>
    /\ renderer = "none"
    /\ output = <<>>

(***************************************************************************)
(* Characters                                                              *)
(***************************************************************************)
Digits == {"0", "1", "2", "3", "4", "5", "6", "7", "8", "9"}
HexLower == {"a", "b", "c", "d", "e", "f"}
HexUpper == {"A", "B", "C", "D", "E", "F"}
HexChars == Digits \cup HexLower \cup HexUpper
Whitespace == {" "}

DigitVal(c) ==
    CASE c = "0" -> 0 [] c = "1" -> 1 [] c = "2" -> 2 [] c = "3" -> 3
      [] c = "4" -> 4 [] c = "5" -> 5 [] c = "6" -> 6 [] c = "7" -> 7
      [] c = "8" -> 8 [] c = "9" -> 9

HexDigit(n) ==
    <<"0", "1", "2", "3", "4", "5", "6", "7",
      "8", "9", "a", "b", "c", "d", "e", "f">>[n + 1]

Letters == <<"a", "b", "c", "d", "e", "f", "g", "h", "i", "j", "k", "l", "m",
             "n", "o", "p", "q", "r", "s", "t", "u", "v", "w", "x", "y", "z">>
Capitals == <<"A", "B", "C", "D", "E", "F", "G", "H", "I", "J", "K", "L", "M",
              "N", "O", "P", "Q", "R", "S", "T", "U", "V", "W", "X", "Y", "Z">>

\* str.upper() and str.lower(), one character
UpperChar(c) ==
    IF \E i \in 1..26 : Letters[i] = c
    THEN Capitals[CHOOSE i \in 1..26 : Letters[i] = c] ELSE c
LowerChar(c) ==
    IF \E i \in 1..26 : Capitals[i] = c
    THEN Letters[CHOOSE i \in 1..26 : Capitals[i] = c] ELSE c

Max(a, b) == IF a >= b THEN a ELSE b
Min(a, b) == IF a <= b THEN a ELSE b

RECURSIVE Flatten(_)
Flatten(ss) == IF ss = <<>> THEN <<>> ELSE Head(ss) \o Flatten(Tail(ss))

(***************************************************************************)
(* _extract_gradient_colors and its helpers                                *)
(***************************************************************************)
default_secondary == <<"#", "7", "6", "4", "b", "a", "2">>
fallback_primary == <<"#", "6", "6", "7", "e", "e", "a">>

\* str.strip(): leading and trailing whitespace removed
RECURSIVE lstrip(_)
lstrip(s) ==
    IF s # <<>> /\ Head(s) \in Whitespace THEN lstrip(Tail(s)) ELSE s

RECURSIVE rstrip(_)
rstrip(s) ==
    IF s # <<>> /\ s[Len(s)] \in Whitespace
    THEN rstrip(SubSeq(s, 1, Len(s) - 1)) ELSE s

strip(s) == rstrip(lstrip(s))

\* normalize_hex: a 3-digit group is doubled digit by digit, anything else
\* is prefixed with '#'
normalize_hex(hex_str) ==
    IF Len(hex_str) = 3
    THEN <<"#", hex_str[1], hex_str[1], hex_str[2], hex_str[2],
           hex_str[3], hex_str[3]>>
    ELSE <<"#">> \o hex_str

\* format spec 02x: lowercase hex, zero-padded to a MINIMUM width of two
RECURSIVE hex_digits(_)
hex_digits(n) ==
    IF n < 16 THEN <<HexDigit(n)>>
    ELSE Append(hex_digits(n \div 16), HexDigit(n % 16))

format_02x(n) == IF n < 16 THEN <<"0">> \o hex_digits(n) ELSE hex_digits(n)

rgb_to_hex(r, g, b) == <<"#">> \o format_02x(r) \o format_02x(g) \o format_02x(b)

\* int(): decimal value of a run of digits
RECURSIVE int(_)
int(ds) ==
    IF ds = <<>> THEN 0
    ELSE 10 * int(SubSeq(ds, 1, Len(ds) - 1)) + DigitVal(ds[Len(ds)])

\* \s* : index of the first character at or after i that is not whitespace
RECURSIVE skip_ws(_, _)
skip_ws(s, i) ==
    IF i <= Len(s) /\ s[i] \in Whitespace THEN skip_ws(s, i + 1) ELSE i

\* \d+ : index after the longest run of digits starting at i (i when none)
RECURSIVE take_digits(_, _)
take_digits(s, i) ==
    IF i <= Len(s) /\ s[i] \in Digits THEN take_digits(s, i + 1) ELSE i

CharAt(s, i, c) == i <= Len(s) /\ s[i] = c

\* the alternation written with {3} before {6}: a 6-digit colour is cut short
hex_match_at_3first(s, i) ==
    IF CharAt(s, i, "#") /\ i + 3 <= Len(s) /\ \A k \in 1..3 : s[i + k] \in HexChars
    THEN 3 ELSE 0

\* #([A-Fa-f0-9]{6}|[A-Fa-f0-9]{3}) anchored at i: length of the group, 0 = no match
hex_match_at(s, i) ==
    IF ~CharAt(s, i, "#") THEN 0
    ELSE IF i + 6 <= Len(s) /\ \A k \in 1..6 : s[i + k] \in HexChars THEN 6
    ELSE IF i + 3 <= Len(s) /\ \A k \in 1..3 : s[i + k] \in HexChars THEN 3
    ELSE 0

NoMatch == [ok |-> FALSE, end |-> 0, r |-> 0, g |-> 0, b |-> 0]

\* rgb\(\s*(\d+)\s*,\s*(\d+)\s*,\s*(\d+)\s*\) anchored at i
rgb_match_at(s, i) ==
    IF ~(i + 3 <= Len(s) /\ SubSeq(s, i, i + 3) = <<"r", "g", "b", "(">>)
    THEN NoMatch
    ELSE
      LET r0 == skip_ws(s, i + 4)
          r1 == take_digits(s, r0)
          c1 == skip_ws(s, r1)
          g0 == skip_ws(s, c1 + 1)
          g1 == take_digits(s, g0)
          c2 == skip_ws(s, g1)
          b0 == skip_ws(s, c2 + 1)
          b1 == take_digits(s, b0)
          cl == skip_ws(s, b1)
      IN IF /\ r1 > r0 /\ CharAt(s, c1, ",")
            /\ g1 > g0 /\ CharAt(s, c2, ",")
            /\ b1 > b0 /\ CharAt(s, cl, ")")
         THEN [ok |-> TRUE, end |-> cl,
               r |-> int(SubSeq(s, r0, r1 - 1)),
               g |-> int(SubSeq(s, g0, g1 - 1)),
               b |-> int(SubSeq(s, b0, b1 - 1))]
         ELSE NoMatch

\* re.finditer / re.findall: leftmost matches, left to right, each search
\* resuming after the previous match.  pat selects the regular expression:
\* "color" = color_pattern, "hex" = hex_regex, "rgb" = rgb_regex.  Every match
\* is returned already converted (normalize_hex / rgb_to_hex).
RECURSIVE finditer(_, _, _)
finditer(pat, s, pos) ==
    IF pos > Len(s) THEN <<>>
    ELSE
      LET h == IF pat # "rgb" THEN hex_match_at(s, pos) ELSE 0
          m == IF pat # "hex" THEN rgb_match_at(s, pos) ELSE NoMatch
      IN IF h > 0
         THEN <<normalize_hex(SubSeq(s, pos + 1, pos + h))>>
                  \o finditer(pat, s, pos + 1 + h)
         ELSE IF m.ok
         THEN <<rgb_to_hex(m.r, m.g, m.b)>> \o finditer(pat, s, m.end + 1)
         ELSE finditer(pat, s, pos + 1)

\* the card's own colour ignored
default_primary_ignored(pcolor) == fallback_primary

\* card.primary_color or "#667eea"
default_primary_of(pcolor) == IF pcolor # <<>> THEN pcolor ELSE fallback_primary

\* the second colour taken even when it repeats the first
secondary_kept(primary, secondary) == secondary

\* lines 995-996: if primary == secondary: secondary = default_secondary
secondary_of(primary, secondary) ==
    IF primary = secondary THEN default_secondary ELSE secondary

extract_gradient_colors(grad, pcolor) ==
    LET default_primary == default_primary_of(pcolor)
        gradient_clean == strip(grad)
        found == finditer("color", gradient_clean, 1)
        hex_matches == finditer("hex", gradient_clean, 1)
        rgb_matches == finditer("rgb", gradient_clean, 1)
    IN IF grad = <<>> \/ gradient_clean = <<>>
       THEN <<default_primary, default_secondary>>
       ELSE IF Len(found) >= 2
       THEN <<found[1], secondary_of(found[1], found[2])>>
       ELSE IF Len(found) = 1
       THEN <<found[1], default_secondary>>
       ELSE IF hex_matches # <<>>
       THEN <<hex_matches[1],
              IF Len(hex_matches) >= 2 THEN hex_matches[2] ELSE default_secondary>>
       ELSE IF rgb_matches # <<>>
       THEN <<rgb_matches[1],
              IF Len(rgb_matches) >= 2 THEN rgb_matches[2] ELSE default_secondary>>
       ELSE <<default_primary, default_secondary>>

(***************************************************************************)
(* Inputs of the colour specification: gradient strings assembled from at  *)
(* most MaxFrags fragments                                                 *)
(***************************************************************************)
MaxFrags == 4

Fragments ==
    { <<"#">>,
      <<"a", "b", "c">>,
      <<"A", "B", "C">>,
      <<"#", "a", "a", "b", "b", "c", "c">>,
      <<"r", "g", "b", "(", " ", "1", "7", "0", ",", "1", "8", "7", " ", ",",
        " ", "2", "0", "4", " ", ")">>,
      <<"r", "g", "b", "(", "3", "0", "0", ",", "0", ",", "0", ")">>,
      <<"r", "g", "b", "(", "1", ",">>,
      <<"2", ",", "3", ")">>,
      <<" ">> }

GradientInputs ==
    { Flatten(fs) : fs \in UNION { [1..n -> Fragments] : n \in 0..MaxFrags } }

PrimaryColorInputs == { <<>>, <<"#", "1", "1", "2", "2", "3", "3">> }

InitColor ==
    /\ pc = "start"
    /\ gradient \in GradientInputs
    /\ primary_color \in PrimaryColorInputs
    /\ colors = <<>>
    /\ card = <<>>
    /\ stats = <<>>
    /\ renderer = "none"
    /\ output = <<>>
    /\ ImageIdle
    /\ OAuthIdle
    /\ VisitIdle
    /\ SyncIdle

ExtractGradientColors ==
    /\ pc = "start"
    /\ renderer = "none"
    /\ colors' = extract_gradient_colors(gradient, primary_color)
    /\ pc' = "done"
    /\ UNCHANGED <<gradient, primary_color, card, stats, renderer, output>>
    /\ UNCHANGED <<image_vars, oauth_vars, visit_vars, sync_vars>>

NextColor == ExtractGradientColors

SpecColor == InitColor /\ [][NextColor]_vars

(***************************************************************************)
(* Python values of the JSON fields of a card: a key of a dict may be      *)
(* absent, hold None, or hold a string                                     *)
(***************************************************************************)
Absent == [tag |-> "absent", s |-> <<>>]
Null == [tag |-> "null", s |-> <<>>]
Str(cs) == [tag |-> "str", s |-> cs]
Error == [tag |-> "error", s |-> <<>>]      \* an exception was raised
NoVal == [tag |-> "none", s |-> <<>>]       \* slot not used by an element

IsErr(v) == v.tag = "error"

\* dict.get(key, default), and dict.get(key) with default None
get(v, default) == IF v.tag = "absent" THEN default ELSE v
\* truth value of a str-or-None value
truthy(v) == v.tag = "str" /\ v.s # <<>>
\* a or b
or(a, b) == IF truthy(a) THEN a ELSE b

\* html.escape(s, quote=True), one character
escape_char(c) ==
    CASE c = "&" -> <<"&", "a", "m", "p", ";">>
      [] c = "<" -> <<"&", "l", "t", ";">>
      [] c = ">" -> <<"&", "g", "t", ";">>
      [] c = "\"" -> <<"&", "q", "u", "o", "t", ";">>
      [] c = "'" -> <<"&", "#", "x", "2", "7", ";">>
      [] OTHER -> <<c>>

RECURSIVE escape_chars(_)
escape_chars(cs) ==
    IF cs = <<>> THEN <<>> ELSE escape_char(Head(cs)) \o escape_chars(Tail(cs))

\* html_escape.escape(v): None has no replace(), so it raises AttributeError
escape(v) == IF v.tag = "str" THEN Str(escape_chars(v.s)) ELSE Error

\* v.upper() / v.lower(): raise AttributeError on None
upper(v) ==
    IF v.tag = "str" THEN Str([i \in 1..Len(v.s) |-> UpperChar(v.s[i])]) ELSE Error
lower(v) ==
    IF v.tag = "str" THEN Str([i \in 1..Len(v.s) |-> LowerChar(v.s[i])]) ELSE Error

(***************************************************************************)
(* Output of a renderer: the sequence of the pieces it wrote, each with    *)
(* its geometry and with the text it interpolated into element content     *)
(* (text), into an attribute value (attr) and into a comment (comment).    *)
(* A renderer that raised returns the single piece "raise".                *)
(***************************************************************************)
E(kind, x, y, w, h, n, text, attr, comment) ==
    [kind |-> kind, x |-> x, y |-> y, w |-> w, h |-> h, n |-> n,
     text |-> text, attr |-> attr, comment |-> comment]

Raise == E("raise", 0, 0, 0, 0, 0, NoVal, NoVal, NoVal)
Lit(kind, x, y, w, h) == E(kind, x, y, w, h, 0, NoVal, NoVal, NoVal)

Raised(out) == \E i \in 1..Len(out) : out[i].kind = "raise"

\* the exception propagates: the caller gets no string
result(out) == IF Raised(out) THEN <<Raise>> ELSE out

(***************************************************************************)
(* generate_svg                                                            *)
(***************************************************************************)
width == 900
banner_height == 180
section_padding == 32
badge_height == 28
badge_gap == 8
row_gap == 10
horizontal_gap == 12
vertical_gap == 10
badge_start_x == 40
MaxBadgesPerCategory == 20
MaxContactsDrawn == 6
contact_card_height == 80
contact_gap == 16
box_h == 100
box_gap == 20
min_height == 600

contact_card_width == (width - 80 - 16) \div 2
box_w == (width - 80 - 20) \div 2

\* max(60, min(200, text_len * 8 + 24))
badge_width(label) == Max(60, Min(200, Len(label.s) * 8 + 24))

\* stacks[:20]
Take(seq, n) == SubSeq(seq, 1, Min(n, Len(seq)))

GroupIndex(groups, category) ==
    IF \E i \in 1..Len(groups) : groups[i].category = category
    THEN CHOOSE i \in 1..Len(groups) : groups[i].category = category
    ELSE 0

\* lines 1022-1033: stacks_by_category, a dict in insertion order; the key is
\* the category as stored and the entries keep the escaped label
RECURSIVE svg_group(_, _, _)
svg_group(stacks, groups, primary) ==
    IF stacks = <<>> THEN groups
    ELSE
      LET stack == Head(stacks)
          category == get(stack.category, Str(<<"O", "t", "h", "e", "r">>))
          known == GroupIndex(groups, category)
          groups1 == IF known = 0
                     THEN Append(groups, [category |-> category, stacks |-> <<>>])
                     ELSE groups
          i == IF known = 0 THEN Len(groups1) ELSE known
          raw_label == or(or(get(stack.label, Null), get(stack.key, Null)), Str(<<>>))
          label == escape(raw_label)
          color == or(get(stack.color, Null), Str(primary))
          groups2 == IF truthy(label)
                     THEN [groups1 EXCEPT ![i].stacks =
                             Append(@, [label |-> label, color |-> color])]
                     ELSE groups1
      \* (the test evaluates groups2 before the next entry is looked at)
      IN IF groups2 # <<>> THEN svg_group(Tail(stacks), groups2, primary)
         ELSE <<>>

\* show_stacks not looked at: the entries are grouped whenever there are any
svg_stacks_by_category_shown(c, primary) ==
    IF c.stacks # <<>> THEN svg_group(c.stacks, <<>>, primary) ELSE <<>>

svg_stacks_by_category(c, primary) ==
    IF c.show_stacks /\ c.stacks # <<>>
    THEN svg_group(c.stacks, <<>>, primary) ELSE <<>>

\* lines 1046-1060: the rows counted for the canvas height.  widest records
\* the widest run of badges and gaps that was put on one row.
RECURSIVE svg_count_rows(_, _, _, _, _)
svg_count_rows(stacks, k, current_row_width, rows, widest) ==
    IF k > Len(stacks)
    THEN [rows |-> rows, widest |-> widest]
    ELSE
      LET bw == badge_width(stacks[k].label)
          max_width == width - 80 - 40
      IN IF current_row_width + bw > max_width /\ current_row_width > 0
         THEN svg_count_rows(stacks, k + 1, bw + badge_gap, rows + 1,
                             Max(widest, bw))
         ELSE svg_count_rows(stacks, k + 1, current_row_width + bw + badge_gap,
                             rows, Max(widest, current_row_width + bw))

svg_rows(stacks) ==
    svg_count_rows(Take(stacks, MaxBadgesPerCategory), 1, 0, 1, 0)

RECURSIVE svg_stacks_height_of(_, _)
svg_stacks_height_of(groups, k) ==
    IF k > Len(groups) THEN 0
    ELSE LET rows == svg_rows(groups[k].stacks).rows
         IN (18 + 12) + rows * badge_height + (rows - 1) * row_gap + 24
              + svg_stacks_height_of(groups, k + 1)

svg_stacks_height(groups) ==
    IF groups = <<>> THEN 0
    ELSE (28 + 24) + svg_stacks_height_of(groups, 1) + section_padding * 2

svg_contact_height(c) ==
    IF c.show_contact /\ c.contacts # <<>>
    THEN LET num_contacts == Min(Len(c.contacts), MaxContactsDrawn)
             cols == Min(2, num_contacts)
             rows == (num_contacts + cols - 1) \div cols
         IN (28 + 24) + rows * 80 + (rows - 1) * 16 + section_padding * 2
    ELSE 0

svg_stats_height(c) ==
    IF c.show_github_stats THEN (28 + 24) + (2 * 100 + 20) + section_padding * 2
    ELSE 0

svg_height(c, groups) ==
    Max(min_height, banner_height + svg_stacks_height(groups)
                      + svg_contact_height(c) + svg_stats_height(c))

\* a metric of the snapshot: absent from the dict, None, or an int
NoStat == [tag |-> "absent", n |-> 0]
NullStat == [tag |-> "null", n |-> 0]
IntStat(n) == [tag |-> "int", n |-> n]

\* stats is None, or a dict of metrics
NoStats ==
    [tag |-> "none", repositories |-> NoStat, stars |-> NoStat,
     followers |-> NoStat, following |-> NoStat]

StatKeys == <<"repositories", "stars", "followers", "following">>

\* truth value of the dict: a dict without keys is false, like None
stats_truthy(st) ==
    st.tag = "dict" /\ \E k \in 1..4 : st[StatKeys[k]].tag # "absent"

\* stats.get(key) or 0
stat_or_0(v) == IF v.tag = "int" /\ v.n # 0 THEN v.n ELSE 0

Word(kind) ==
    CASE kind = "REPOSITORIES" -> <<"R", "E", "P", "O", "S", "I", "T", "O", "R", "I", "E", "S">>
      [] kind = "STARS" -> <<"S", "T", "A", "R", "S">>
      [] kind = "FOLLOWERS" -> <<"F", "O", "L", "L", "O", "W", "E", "R", "S">>
      [] kind = "FOLLOWING" -> <<"F", "O", "L", "L", "O", "W", "I", "N", "G">>
      [] kind = "CONTACT" -> <<"C", "O", "N", "T", "A", "C", "T">>
      [] kind = "Stacks" -> <<"S", "t", "a", "c", "k", "s">>

\* the width of the badge left out of the test: the row is left too late
svg_wrap_late(badge_x, bw) == badge_x > width - 80

\* line 1168: if badge_x + badge_width > max_width, with max_width = width - 80
svg_wrap(badge_x, bw) == badge_x + bw > width - 80

\* lines 1161-1180: the badges of one category, g its position among the
\* categories; badge_y of the last row is returned with the pieces
RECURSIVE svg_badges(_, _, _, _, _)
svg_badges(stacks, g, k, badge_x, badge_y) ==
    IF k > Len(stacks) THEN [elems |-> <<>>, badge_y |-> badge_y]
    ELSE
      LET label == stacks[k].label
          color == stacks[k].color
          bw == badge_width(label)
          wrap == svg_wrap(badge_x, bw)
          x == IF wrap THEN badge_start_x ELSE badge_x
          y == IF wrap THEN badge_y + badge_height + vertical_gap ELSE badge_y
          badge == E("badge", x, y, bw, badge_height, g, label, color, NoVal)
          ink == E("badge_ink", x + bw \div 2, y + badge_height \div 2 + 4, 0, 0, g,
                   NoVal, Str(<<"#", "f", "f", "f", "f", "f", "f">>), NoVal)
          rest == svg_badges(stacks, g, k + 1, badge.x + bw + horizontal_gap, badge.y)
      IN [elems |-> <<badge, ink>> \o rest.elems, badge_y |-> rest.badge_y]

\* lines 1143-1182: one category after the other, in the order of the dict
RECURSIVE svg_categories(_, _, _)
svg_categories(groups, g, current_y) ==
    IF g > Len(groups) THEN [elems |-> <<>>, current_y |-> current_y]
    ELSE
      LET category == groups[g].category
          category_escaped == escape(upper(category))
          drawn == svg_badges(Take(groups[g].stacks, MaxBadgesPerCategory), g, 1,
                              badge_start_x, current_y + 18 + 12)
          rest == svg_categories(groups, g + 1, drawn.badge_y + badge_height + 24)
      IN IF IsErr(category_escaped)
         THEN [elems |-> <<Raise>>, current_y |-> current_y]
         ELSE [elems |-> <<E("category", 40, current_y, 0, 0, g,
                              category_escaped, NoVal, category)>>
                           \o drawn.elems \o rest.elems,
               current_y |-> rest.current_y]

\* lines 1135-1184
svg_stacks_section(groups, current_y) ==
    IF groups = <<>> THEN [elems |-> <<>>, current_y |-> current_y]
    ELSE
      LET cats == svg_categories(groups, 1, current_y + 28 + 24)
      IN [elems |-> <<E("stacks_header", 40, current_y, 0, 0, 0,
                        Str(Word("Stacks")), NoVal, NoVal)>> \o cats.elems,
          current_y |-> cats.current_y + section_padding - 24]

\* value[:40] followed by '...' when len(value) > 40
svg_truncate(value) ==
    Str(Take(value.s, 40) \o (IF Len(value.s) > 40 THEN <<".", ".", ".">> ELSE <<>>))

\* lines 1201-1224: i counts the entries from 0
RECURSIVE svg_contacts(_, _, _, _)
svg_contacts(contacts, i, contact_x, contact_y) ==
    IF i >= Len(contacts) THEN <<>>
    ELSE
      LET contact == contacts[i + 1]
          newrow == i > 0 /\ i % 2 = 0
          x == IF newrow THEN 40 ELSE contact_x
          y == IF newrow THEN contact_y + contact_card_height + contact_gap
               ELSE contact_y
          label == escape(get(contact.label, Str(<<>>)))
          value == escape(get(contact.value, Str(<<>>)))
          contact_type == get(contact.type, Str(<<>>))
          display_label ==
              IF truthy(label) THEN upper(label)
              ELSE IF truthy(contact_type) THEN upper(contact_type)
              ELSE Str(Word("CONTACT"))
      IN IF IsErr(label) \/ IsErr(value) THEN <<Raise>>
         ELSE IF truthy(value)
         THEN <<E("contact_card", x, y, contact_card_width, contact_card_height,
                  i, NoVal, NoVal, NoVal),
                E("contact_label", x + 20, y + 24, 0, 0, i, display_label,
                  NoVal, NoVal),
                E("contact_value", x + 20, y + 48, 0, 0, i, svg_truncate(value),
                  NoVal, NoVal)>>
                \o svg_contacts(contacts, i + 1,
                                x + contact_card_width + contact_gap, y)
         ELSE svg_contacts(contacts, i + 1, x, y)

\* lines 1187-1226
svg_contact_section(c, current_y) ==
    IF c.show_contact /\ c.contacts # <<>>
    THEN [elems |->
            <<Lit("contact_background", 0, current_y, width,
                  svg_contact_height(c) - section_padding * 2),
              Lit("contact_header", 40, current_y + section_padding, 0, 0)>>
            \o svg_contacts(Take(c.contacts, MaxContactsDrawn), 0, 40,
                            current_y + section_padding + 28 + 24),
          current_y |-> current_y + svg_contact_height(c)]
    ELSE [elems |-> <<>>, current_y |-> current_y]

\* lines 1255-1269: the tile of the metric at position i (from 0)
svg_stat_box(st, i, stats_start_y) ==
    E("stat_box", 40 + (i % 2) * (box_w + box_gap),
      stats_start_y + (i \div 2) * (box_h + box_gap), box_w, box_h,
      stat_or_0(st[StatKeys[i + 1]]),
      Str(Word(<<"REPOSITORIES", "STARS", "FOLLOWERS", "FOLLOWING">>[i + 1])),
      NoVal, NoVal)

\* lines 1229-1269
svg_stats_section(c, st, current_y) ==
    IF c.show_github_stats
    THEN <<Lit("stats_header", 40, current_y + section_padding, 0, 0)>>
         \o (IF stats_truthy(st)
             THEN [i \in 1..4 |->
                     svg_stat_box(st, i - 1, current_y + section_padding + 28 + 24)]
             ELSE <<>>)
    ELSE <<>>

\* lines 1135-1269: the three sections, each starting where the one before ended
svg_sections(c, st, groups) ==
    LET stacks_part == svg_stacks_section(groups, banner_height + section_padding)
        contact_part == svg_contact_section(c, stacks_part.current_y)
    IN stacks_part.elems \o contact_part.elems
         \o svg_stats_section(c, st, contact_part.current_y)

\* lines 1016-1133: the canvas and the banner, then the sections
svg_document(c, st, primary, secondary, groups, height) ==
    LET name == escape(c.name)
        title == escape(c.title)
        tagline == escape(or(c.tagline, Str(<<>>)))
    IN result(
         (IF IsErr(name) \/ IsErr(title) THEN <<Raise>> ELSE <<>>)
         \o <<E("svg", 0, 0, width, height, 0, NoVal, NoVal, NoVal),
              E("stop", 0, 0, 0, 0, 0, NoVal, Str(primary), NoVal),
              E("stop", 0, 0, 0, 0, 0, NoVal, Str(secondary), NoVal),
              E("title", 0, 0, 0, 0, 0, name, NoVal, NoVal),
              Lit("background", 0, 0, width, height),
              Lit("banner", 0, 0, width, banner_height),
              E("name", width \div 2, 80, 0, 0, 0, name, NoVal, NoVal),
              E("title_text", width \div 2, 130, 0, 0, 0, title, NoVal, NoVal)>>
         \o (IF truthy(tagline)
             THEN <<E("tagline", width \div 2, 160, 0, 0, 0, tagline, NoVal, NoVal)>>
             ELSE <<>>)
         \o svg_sections(c, st, groups))

\* lines 1014-1086: the colours, the groups and the height of the canvas
svg_measured(c, st, primary, secondary, groups) ==
    svg_document(c, st, primary, secondary, groups, svg_height(c, groups))

svg_coloured(c, st, found) ==
    svg_measured(c, st, found[1], found[2], svg_stacks_by_category(c, found[1]))

generate_svg(c, grad, pcolor, st) ==
    svg_coloured(c, st, extract_gradient_colors(grad, pcolor))

(***************************************************************************)
(* generate_html and generate_readme_template                              *)
(***************************************************************************)
Range(f) == { f[i] : i \in DOMAIN f }

\* s.startswith(prefix) and s[a:b]
startswith(s, prefix) == Len(s) >= Len(prefix) /\ SubSeq(s, 1, Len(prefix)) = prefix
slice(s, a, b) == SubSeq(s, a + 1, Min(b, Len(s)))

\* s.replace(old, new) for a one-character old
RECURSIVE replace(_, _, _)
replace(s, old, new) ==
    IF s = <<>> THEN <<>>
    ELSE (IF Head(s) = old THEN new ELSE <<Head(s)>>) \o replace(Tail(s), old, new)

\* s.replace('++', 'plusplus')
RECURSIVE replace_plusplus(_)
replace_plusplus(s) ==
    IF s = <<>> THEN <<>>
    ELSE IF Len(s) >= 2 /\ s[1] = "+" /\ s[2] = "+"
    THEN <<"p", "l", "u", "s", "p", "l", "u", "s">> \o replace_plusplus(SubSeq(s, 3, Len(s)))
    ELSE <<Head(s)>> \o replace_plusplus(Tail(s))

category_order ==
    << <<"l", "a", "n", "g", "u", "a", "g", "e">>, <<"f", "r", "o", "n", "t", "e", "n", "d">>, <<"m", "o", "b", "i", "l", "e">>,
       <<"b", "a", "c", "k", "e", "n", "d">>, <<"d", "a", "t", "a", "b", "a", "s", "e">>, <<"i", "n", "f", "r", "a">>,
       <<"c", "o", "l", "l", "a", "b", "o", "r", "a", "t", "i", "o", "n">>, <<"a", "i", "-", "m", "l">>, <<"t", "e", "s", "t", "i", "n", "g">>,
       <<"t", "o", "o", "l">> >>

\* category_labels_en, in the order of category_order
category_labels_en ==
    << <<"L", "a", "n", "g", "u", "a", "g", "e">>, <<"F", "r", "o", "n", "t", "e", "n", "d">>, <<"M", "o", "b", "i", "l", "e">>,
       <<"B", "a", "c", "k", "e", "n", "d">>, <<"D", "a", "t", "a", "b", "a", "s", "e">>, <<"I", "n", "f", "r", "a">>,
       <<"C", "o", "l", "l", "a", "b", "o", "r", "a", "t", "i", "o", "n">>, <<"A", "I", " ", "/", " ", "M", "L">>, <<"T", "e", "s", "t", "i", "n", "g">>,
       <<"T", "o", "o", "l", "s">> >>

\* category_labels_ko, in the order of category_order; a Hangul syllable is
\* written as its code point
category_labels_ko ==
    << <<"U+C5B8", "U+C5B4">>,
       <<"U+D504", "U+B860", "U+D2B8", "U+C5D4", "U+B4DC">>,
       <<"U+BAA8", "U+BC14", "U+C77C">>,
       <<"U+BC31", "U+C5D4", "U+B4DC">>,
       <<"U+B370", "U+C774", "U+D130", "U+BCA0", "U+C774", "U+C2A4">>,
       <<"U+C778", "U+D504", "U+B77C">>,
       <<"U+D611", "U+C5C5", " ", "U+B3C4", "U+AD6C">>,
       <<"A", "I", "/", "M", "L">>,
       <<"U+D14C", "U+C2A4", "U+D305">>,
       <<"U+B3C4", "U+AD6C">> >>

\* lines 615-619 and 1674-1678: the labels the language flag of the card selects
category_labels_of(c) ==
    LET lang0 == get(c.stack_label_lang, Str(<<"e", "n">>))
        stack_label_lang == IF ~truthy(lang0) \/ lang0.s \notin {<<"k", "o">>, <<"e", "n">>}
                            THEN <<"e", "n">> ELSE lang0.s
    IN IF stack_label_lang = <<"k", "o">> THEN category_labels_ko ELSE category_labels_en

\* lines 626-631 and 1686-1691: the category an entry is grouped under
normalize_category(stack) ==
    LET category_raw == get(stack.category, Str(<<"t", "o", "o", "l">>))
        category == IF category_raw.tag = "str" THEN lower(category_raw).s
                    ELSE <<"t", "o", "o", "l">>
    IN IF category \in Range(category_order) THEN category ELSE <<"t", "o", "o", "l">>

\* the entries of STACK_ICON_MAP for the keys of the cards drawn
STACK_ICON_KEYS ==
    { <<"g", "o">>,
      <<"j", "a", "v", "a">>,
      <<"c">>,
      <<"r">>,
      <<"c", "p", "p">>,
      <<"n", "o", "d", "e", "j", "s">>,
      <<"r", "e", "a", "c", "t">>,
      <<"r", "e", "a", "c", "t", "-", "n", "a", "t", "i", "v", "e">>,
      <<"s", "p", "r", "i", "n", "g", "-", "b", "o", "o", "t">> }
STACK_ICON_MAP(key) ==
    CASE key = <<"j", "a", "v", "a">> -> <<"o", "p", "e", "n", "j", "d", "k">>
      [] key = <<"c", "p", "p">> -> <<"c", "p", "l", "u", "s", "p", "l", "u", "s">>
      [] key = <<"n", "o", "d", "e", "j", "s">> -> <<"n", "o", "d", "e", "d", "o", "t", "j", "s">>
      [] key = <<"r", "e", "a", "c", "t", "-", "n", "a", "t", "i", "v", "e">> -> <<"r", "e", "a", "c", "t">>
      [] key = <<"s", "p", "r", "i", "n", "g", "-", "b", "o", "o", "t">> -> <<"s", "p", "r", "i", "n", "g", "b", "o", "o", "t">>
      [] OTHER -> key

\* CONTACT_ICON_MAP.get(contact_type) if contact_type else None
CONTACT_ICON_MAP(contact_type) ==
    IF ~truthy(contact_type) THEN Null
    ELSE CASE contact_type.s = <<"m", "a", "i", "l">> -> Str(<<"g", "m", "a", "i", "l">>)
           [] contact_type.s = <<"l", "i", "n", "k", "e", "d", "i", "n">> -> Str(<<"i", "n", "s", "p", "i", "r", "e">>)
           [] contact_type.s = <<"t", "h", "r", "e", "a", "d">> -> Str(<<"t", "h", "r", "e", "a", "d", "s">>)
           [] contact_type.s \in { <<"i", "n", "s", "t", "a", "g", "r", "a", "m">>, <<"v", "e", "l", "o", "g">>, <<"r", "e", "d", "d", "i", "t">>,
                                   <<"f", "a", "c", "e", "b", "o", "o", "k">>, <<"y", "o", "u", "t", "u", "b", "e">>, <<"x">> } -> contact_type
           [] OTHER -> Null

\* the key of the icon when only the label as normalized is looked up
stack_key_exact(stack_key, stack_label) ==
    IF ~truthy(stack_key) /\ truthy(stack_label)
    THEN LET normalized_label ==
                 replace_plusplus(replace(replace(lower(stack_label).s, " ", <<"-">>),
                                          ".", <<>>))
         IN IF normalized_label \in STACK_ICON_KEYS THEN Str(normalized_label)
            ELSE stack_key
    ELSE stack_key

\* lines 681-698 and 1719-1736: the key of the icon, looked up with the label
\* when the entry has no key
stack_key_of(stack_key, stack_label) ==
    IF ~truthy(stack_key) /\ truthy(stack_label)
    THEN LET normalized_label ==
                 replace_plusplus(replace(replace(lower(stack_label).s, " ", <<"-">>),
                                          ".", <<>>))
             variations == << replace(normalized_label, "-", <<>>),
                              replace(normalized_label, ".", <<>>),
                              replace(normalized_label, " ", <<>>) >>
         IN IF normalized_label \in STACK_ICON_KEYS THEN Str(normalized_label)
            ELSE IF \E v \in 1..3 : variations[v] \in STACK_ICON_KEYS
            THEN Str(variations[CHOOSE v \in 1..3 :
                                  /\ variations[v] \in STACK_ICON_KEYS
                                  /\ \A u \in 1..(v - 1) :
                                        variations[u] \notin STACK_ICON_KEYS])
            ELSE stack_key
    ELSE stack_key

\* STACK_ICON_MAP.get(stack_key) if stack_key else None
icon_slug_of(stack_key) ==
    IF truthy(stack_key) /\ stack_key.s \in STACK_ICON_KEYS
    THEN Str(STACK_ICON_MAP(stack_key.s)) ELSE Null

\* int(s, 16) of a slice: ValueError unless s is a non-empty run of hex digits
IsHexNumber(s) == s # <<>> /\ \A i \in 1..Len(s) : s[i] \in HexChars
HexCharVal(c) == CHOOSE n \in 0..15 : HexDigit(n) = LowerChar(c)
RECURSIVE int16(_)
int16(s) == IF s = <<>> THEN 0
            ELSE int16(SubSeq(s, 1, Len(s) - 1)) * 16 + HexCharVal(s[Len(s)])

\* int(s, 16) of a slice of at most two characters: blanks around the digits
\* and a sign before them are accepted (no room for a 0x prefix or for an
\* underscore between digits)
int16_digits(s) ==
    LET t == strip(s)
    IN IF t # <<>> /\ Head(t) \in {"+", "-"} THEN Tail(t) ELSE t

IsInt16(s) == IsHexNumber(int16_digits(s))

int16_signed(s) ==
    IF strip(s) # <<>> /\ Head(strip(s)) = "-"
    THEN 0 - int16(int16_digits(s)) ELSE int16(int16_digits(s))

RECURSIVE lstrip_hash(_)
lstrip_hash(s) == IF s # <<>> /\ Head(s) = "#" THEN lstrip_hash(Tail(s)) ELSE s

\* (0.299 * r + 0.587 * g + 0.114 * b) / 255 > 0.5 in double arithmetic: it is
\* 299 r + 587 g + 114 b > 127500 for every r, g, b of 0..255 but one, the
\* channels 218, 58, 248, whose sum is 127500 and whose quotient is rounded
\* to 0.5000000000000001
luminance_above_half(r, g, b) ==
    \/ 299 * r + 587 * g + 114 * b > 127500
    \/ <<r, g, b>> = <<218, 58, 248>>

\* _is_light_color: "light", "dark", or "error" when it raises (None has no
\* lstrip; a slice that is not a hex number).
is_light_color(hex_color) ==
    IF hex_color.tag # "str" THEN "error"
    ELSE LET h0 == lstrip_hash(hex_color.s)
             h == IF Len(h0) = 3
                  THEN <<h0[1], h0[1], h0[2], h0[2], h0[3], h0[3]>> ELSE h0
             r == slice(h, 0, 2)
             g == slice(h, 2, 4)
             b == slice(h, 4, 6)
         IN IF ~(IsInt16(r) /\ IsInt16(g) /\ IsInt16(b)) THEN "error"
            ELSE IF luminance_above_half(int16_signed(r), int16_signed(g), int16_signed(b))
            THEN "light" ELSE "dark"

icon_color_of(is_light) == IF is_light = "light" THEN <<"b", "l", "a", "c", "k">> ELSE <<"w", "h", "i", "t", "e">>

\* the entries of the card that fall in the category at position k
RECURSIVE in_category(_, _)
in_category(stacks, k) ==
    IF stacks = <<>> THEN <<>>
    ELSE (IF normalize_category(Head(stacks)) = category_order[k]
          THEN <<Head(stacks)>> ELSE <<>>) \o in_category(Tail(stacks), k)

\* lines 622-636: stacks_by_category of generate_html
html_stacks_by_category(c) ==
    [k \in 1..10 |-> IF c.show_stacks /\ c.stacks # <<>>
                     THEN in_category(c.stacks, k) ELSE <<>>]

\* card.gradient or the default built with card.primary_color
html_gradient(grad, pcolor) ==
    IF grad # <<>> THEN grad
    ELSE <<"l", "i", "n", "e", "a", "r", "-", "g", "r", "a", "d", "i", "e", "n", "t", "(", "1", "3", "5", "d", "e", "g", ",", " ">> \o default_primary_of(pcolor)
           \o <<" ", "0", "%", ",", " ", "r", "g", "b", "(", "1", "0", "2", ",", " ", "1", "2", "6", ",", " ", "2", "3", "4", ")", " ", "1", "0", "0", "%", ")">>

\* lines 675-724: the badge of one entry, in the category at position k
html_badge(stack, k) ==
    LET label0 == escape(get(stack.label, get(stack.key, Str(<<>>))))
        stack_color == get(stack.color, Str(fallback_primary))
        stack_key == stack_key_of(get(stack.key, Str(<<>>)), label0)
        stack_label == IF stack_key = Str(<<"j", "a", "v", "a">>) THEN Str(<<"O", "p", "e", "n", "J", "D", "K">>) ELSE label0
        icon_slug == icon_slug_of(stack_key)
        is_light == is_light_color(stack_color)
    IN IF IsErr(label0) \/ is_light = "error" THEN <<Raise>>
       ELSE (IF truthy(icon_slug)
             THEN <<E("badge_icon", 0, 0, 0, 0, k, NoVal,
                      Str(icon_slug.s \o <<"/">> \o icon_color_of(is_light)), NoVal)>>
             ELSE <<>>)
            \o <<E("badge_ink", 0, 0, 0, 0, k, NoVal, Str(icon_color_of(is_light)), NoVal),
                 E("badge", 0, 0, 0, 0, k, stack_label, stack_color, NoVal)>>

RECURSIVE html_badges(_, _)
html_badges(stacks, k) ==
    IF stacks = <<>> THEN <<>>
    ELSE html_badge(Head(stacks), k) \o html_badges(Tail(stacks), k)

\* lines 656-674: the heading of the category at position k
html_category(c, k) ==
    LET alignment == or(c.stack_alignment, Str(<<"c", "e", "n", "t", "e", "r">>))
        justify_content == IF alignment = Str(<<"l", "e", "f", "t">>) THEN <<"f", "l", "e", "x", "-", "s", "t", "a", "r", "t">>
                           ELSE IF alignment = Str(<<"r", "i", "g", "h", "t">>) THEN <<"f", "l", "e", "x", "-", "e", "n", "d">>
                           ELSE <<"c", "e", "n", "t", "e", "r">>
    IN E("category", 0, 0, 0, 0, k, escape(Str(category_labels_of(c)[k])),
         Str(justify_content), NoVal)

\* lines 648-730
html_stacks_section(c) ==
    LET groups == html_stacks_by_category(c)
    IN IF c.show_stacks /\ \E k \in 1..10 : groups[k] # <<>>
       THEN <<E("stacks_header", 0, 0, 0, 0, 0, Str(Word("Stacks")), NoVal, NoVal)>>
            \o Flatten([k \in 1..10 |->
                 IF groups[k] = <<>> THEN <<>>
                 ELSE <<html_category(c, k)>> \o html_badges(groups[k], k)])
       ELSE <<>>

\* is_email, is_url and href of lines 755-768
contact_href(value) ==
    LET is_email == "@" \in Range(value) /\ ~startswith(value, <<"h", "t", "t", "p">>)
        is_url == startswith(value, <<"h", "t", "t", "p", ":", "/", "/">>) \/ startswith(value, <<"h", "t", "t", "p", "s", ":", "/", "/">>)
    IN IF is_email THEN <<"m", "a", "i", "l", "t", "o", ":">> \o value
       ELSE IF is_url THEN value
       ELSE <<"h", "t", "t", "p", "s", ":", "/", "/">> \o value

\* label.upper() if label else (contact_type.upper() if contact_type else 'CONTACT')
display_label_of(label, contact_type) ==
    IF truthy(label) THEN upper(label)
    ELSE IF truthy(contact_type) THEN upper(contact_type)
    ELSE Str(Word("CONTACT"))

\* lines 740-797: one contact, i counted from 0
html_contact(contact, i) ==
    LET label == escape(get(contact.label, Str(<<>>)))
        value == escape(get(contact.value, Str(<<>>)))
        contact_type == get(contact.type, Str(<<>>))
        icon_slug == CONTACT_ICON_MAP(contact_type)
    IN IF IsErr(label) \/ IsErr(value) THEN <<Raise>>
       ELSE IF truthy(value)
       THEN <<E("contact_card", 0, 0, 0, 0, i, NoVal, Str(contact_href(value.s)), NoVal)>>
            \o (IF truthy(icon_slug)
                THEN <<E("contact_icon", 0, 0, 0, 0, i, icon_slug, label, NoVal)>>
                ELSE <<>>)
            \o <<E("contact_label", 0, 0, 0, 0, i,
                   display_label_of(label, contact_type), NoVal, NoVal),
                 E("contact_value", 0, 0, 0, 0, i, value, NoVal, NoVal)>>
       ELSE <<>>

\* lines 732-800
html_contact_section(c) ==
    IF c.show_contact /\ c.contacts # <<>>
    THEN <<Lit("contact_header", 0, 0, 0, 0)>>
         \o Flatten([i \in 1..Len(c.contacts) |-> html_contact(c.contacts[i], i - 1)])
    ELSE <<>>

\* lines 803-817
html_baekjoon_section(c) ==
    IF c.show_baekjoon /\ truthy(c.baekjoon_id)
    THEN <<E("baekjoon", 0, 0, 0, 0, 0, NoVal, escape(c.baekjoon_id), NoVal)>>
    ELSE <<>>

\* lines 821-845: four tiles that show "-" on the gradient
html_stats_section(c, gradient_css) ==
    IF c.show_github_stats
    THEN <<Lit("stats_header", 0, 0, 0, 0)>>
         \o [i \in 1..4 |-> E("stat_box", 0, 0, 0, 0, i - 1, Str(<<"-">>),
                              Str(gradient_css), NoVal)]
    ELSE <<>>

\* html_escape.escape(repo.get(key, "")) if repo.get(key) else ""
escape_if_set(v) == IF truthy(get(v, Null)) THEN escape(get(v, Str(<<>>))) ELSE Str(<<>>)

\* lines 856-883: one repository, i counted from 0
html_repository(repo, i) ==
    LET repo_name == escape(get(repo.name, Str(<<>>)))
        repo_description == escape_if_set(repo.description)
        repo_url == escape(get(repo.html_url, Str(<<>>)))
        repo_language == escape_if_set(repo.language)
    IN IF IsErr(repo_name) \/ IsErr(repo_url) THEN <<Raise>>
       ELSE <<E("repo_card", 0, 0, 0, 0, i, repo_name, repo_url, NoVal)>>
            \o (IF truthy(repo_language)
                THEN <<E("repo_language", 0, 0, 0, 0, i, repo_language, NoVal, NoVal)>>
                ELSE <<>>)
            \o (IF truthy(repo_description)
                THEN <<E("repo_description", 0, 0, 0, 0, i, repo_description,
                         NoVal, NoVal)>>
                ELSE <<>>)

\* lines 848-887
html_repositories_section(c) ==
    IF c.repositories # <<>>
    THEN <<Lit("repositories_header", 0, 0, 0, 0)>>
         \o Flatten([i \in 1..Len(c.repositories) |->
                       html_repository(c.repositories[i], i - 1)])
    ELSE <<>>

generate_html(c, grad, pcolor) ==
    LET gradient_css == html_gradient(grad, pcolor)
        name == escape(c.name)
        title == escape(c.title)
        tagline == IF truthy(c.tagline) THEN escape(c.tagline) ELSE Str(<<>>)
    IN result(
         (IF IsErr(name) \/ IsErr(title) THEN <<Raise>> ELSE <<>>)
         \o <<E("banner", 0, 0, 0, 0, 0, NoVal, Str(gradient_css), NoVal),
              E("name", 0, 0, 0, 0, 0, name, NoVal, NoVal),
              E("title_text", 0, 0, 0, 0, 0, title, NoVal, NoVal)>>
         \o (IF truthy(c.tagline)
             THEN <<E("tagline", 0, 0, 0, 0, 0, tagline, NoVal, NoVal)>>
             ELSE <<>>)
         \o html_stacks_section(c)
         \o html_contact_section(c)
         \o html_baekjoon_section(c)
         \o html_stats_section(c, gradient_css)
         \o html_repositories_section(c))

\* lines 1684-1698: stacks_by_category of generate_readme_template keeps the
\* entries that have a label, each as label, color and key
RECURSIVE readme_in_category(_, _)
readme_in_category(stacks, k) ==
    IF stacks = <<>> THEN <<>>
    ELSE LET stack == Head(stacks)
             label == or(get(stack.label, Null), get(stack.key, Str(<<>>)))
             color == get(stack.color, Str(fallback_primary))
             stack_key == get(stack.key, Str(<<>>))
         IN (IF normalize_category(stack) = category_order[k] /\ truthy(label)
             THEN <<[label |-> label, color |-> color, key |-> stack_key]>>
             ELSE <<>>) \o readme_in_category(Tail(stacks), k)

\* stack_label.replace('-', '--').replace('_', '__').replace(' ', '%20')
shields_stack_label(s) ==
    replace(replace(replace(s, "-", <<"-", "-">>), "_", <<"_", "_">>), " ", <<"%", "2", "0">>)

\* escape_shields_io(display_label)
escape_shields_io(s) ==
    replace(replace(replace(s, "-", <<"-", "-">>), "_", <<"_", "_">>), " ", <<"_">>)

\* lines 1714-1768: the shields.io badge of one entry
readme_badge(stack_info, k) ==
    LET stack_label == stack_info.label
        stack_color == stack_info.color
        stack_key == stack_key_of(stack_info.key, stack_label)
        icon_slug == icon_slug_of(stack_key)
        color_code == IF stack_color.tag = "str"
                      THEN Str(replace(stack_color.s, "#", <<>>)) ELSE Error
        stack_label_escaped == shields_stack_label(stack_label.s)
        is_light == is_light_color(stack_color)
    IN IF IsErr(color_code) \/ is_light = "error" THEN <<Raise>>
       ELSE (IF truthy(icon_slug)
             THEN <<E("badge_icon", 0, 0, 0, 0, k, NoVal,
                      Str(icon_slug.s \o <<"/">> \o icon_color_of(is_light)), NoVal)>>
             ELSE <<>>)
            \o <<E("badge", 0, 0, 0, 0, k, NoVal,
                   Str(stack_label_escaped \o <<"-">> \o color_code.s), NoVal),
                 E("badge_alt", 0, 0, 0, 0, k, NoVal, stack_label, NoVal)>>

RECURSIVE readme_badges(_, _)
readme_badges(stacks, k) ==
    IF stacks = <<>> THEN <<>>
    ELSE readme_badge(Head(stacks), k) \o readme_badges(Tail(stacks), k)

\* lines 1640-1770
readme_stacks_section(c) ==
    IF c.show_stacks /\ c.stacks # <<>>
    THEN <<E("stacks_header", 0, 0, 0, 0, 0, NoVal, NoVal, NoVal)>>
         \o Flatten([k \in 1..10 |->
              LET stacks == readme_in_category(c.stacks, k)
              IN IF stacks = <<>> THEN <<>>
                 ELSE <<E("category", 0, 0, 0, 0, k, Str(category_labels_of(c)[k]),
                          or(c.stack_alignment, Str(<<"c", "e", "n", "t", "e", "r">>)), NoVal)>>
                      \o readme_badges(Take(stacks, MaxBadgesPerCategory), k)])
    ELSE <<>>

\* the link of lines 1787-1798
readme_link(value) ==
    IF startswith(value, <<"h", "t", "t", "p", ":", "/", "/">>) \/ startswith(value, <<"h", "t", "t", "p", "s", ":", "/", "/">>) THEN value
    ELSE IF "@" \in Range(value) /\ ~startswith(value, <<"h", "t", "t", "p">>) THEN <<"m", "a", "i", "l", "t", "o", ":">> \o value
    ELSE IF ~startswith(value, <<"h", "t", "t", "p">>) THEN <<"h", "t", "t", "p", "s", ":", "/", "/">> \o value
    ELSE value

\* lines 1777-1837: one contact, i counted from 0
readme_contact(contact, i) ==
    LET label == get(contact.label, Str(<<>>))
        value == get(contact.value, Str(<<>>))
        contact_type == get(contact.type, Str(<<>>))
        icon_slug == CONTACT_ICON_MAP(contact_type)
        display_label == display_label_of(label, contact_type)
    IN IF truthy(value)
       THEN <<E("contact_card", 0, 0, 0, 0, i, NoVal, Str(readme_link(value.s)), NoVal),
              E("contact_title", 0, 0, 0, 0, i, NoVal, value, NoVal),
              E("contact_badge", 0, 0, 0, 0, i, get(icon_slug, NoVal),
                Str(escape_shields_io(display_label.s)), NoVal),
              E("contact_alt", 0, 0, 0, 0, i, NoVal,
                Str(display_label.s \o <<":", " ">> \o value.s), NoVal)>>
       ELSE <<>>

\* lines 1772-1839
readme_contact_section(c) ==
    IF c.show_contact /\ c.contacts # <<>>
    THEN LET contacts == Take(c.contacts, MaxContactsDrawn)
         IN <<Lit("contact_header", 0, 0, 0, 0)>>
            \o Flatten([i \in 1..Len(contacts) |-> readme_contact(contacts[i], i - 1)])
    ELSE <<>>

\* lines 1842-1848: the handle goes into the link as it is
readme_baekjoon_section(c) ==
    IF c.show_baekjoon /\ truthy(c.baekjoon_id)
    THEN <<E("baekjoon", 0, 0, 0, 0, 0, NoVal, c.baekjoon_id, NoVal)>>
    ELSE <<>>

\* lines 1851-1868
readme_repository(repo, i) ==
    LET repo_url == escape(get(repo.html_url, Str(<<>>)))
        repo_name == escape(get(repo.name, Str(<<>>)))
    IN IF IsErr(repo_url) \/ IsErr(repo_name) THEN <<Raise>>
       ELSE <<E("repo_card", 0, 0, 0, 0, i, NoVal, repo_url, NoVal),
              E("repo_banner", 0, 0, 0, 0, i, NoVal, repo_name, NoVal)>>

readme_repositories_section(c) ==
    IF c.repositories # <<>>
    THEN <<Lit("repositories_header", 0, 0, 0, 0)>>
         \o Flatten([i \in 1..Len(c.repositories) |->
                       readme_repository(c.repositories[i], i - 1)])
    ELSE <<>>

\* lines 1871-1879
readme_stats_section(c) ==
    IF c.show_github_stats
    THEN <<Lit("stats_header", 0, 0, 0, 0), Lit("stats_card", 0, 0, 0, 0),
           Lit("top_langs", 0, 0, 0, 0)>>
    ELSE <<>>

generate_readme_template(c, st) ==
    result(<<Lit("banner", 0, 0, 0, 0)>>
           \o readme_stacks_section(c)
           \o readme_contact_section(c)
           \o readme_baekjoon_section(c)
           \o readme_repositories_section(c)
           \o readme_stats_section(c)
           \o <<Lit("footer", 0, 0, 0, 0)>>)

(***************************************************************************)
(* generate_svg_banner and generate_svg_contact                            *)
(***************************************************************************)
banner_width == 900
banner_svg_height == 200

\* lines 1348-1351: a colour that is empty or does not start with '#' is
\* replaced by the default
banner_color(color, default) ==
    IF color = <<>> \/ ~startswith(color, <<"#">>) THEN default ELSE color

\* lines 1357-1401
svg_banner_document(c, primary, secondary) ==
    LET name == escape(c.name)
        title == escape(c.title)
        tagline == escape(or(c.tagline, Str(<<>>)))
    IN result(
         (IF IsErr(name) \/ IsErr(title) THEN <<Raise>> ELSE <<>>)
         \o <<E("svg", 0, 0, banner_width, banner_svg_height, 0, NoVal, NoVal, NoVal),
              E("stop", 0, 0, 0, 0, 0, NoVal, Str(primary), NoVal),
              E("stop", 0, 0, 0, 0, 0, NoVal, Str(secondary), NoVal),
              Lit("banner", 0, 0, banner_width, banner_svg_height),
              E("name", banner_width \div 2, 80, 0, 0, 0, name, NoVal, NoVal),
              E("title_text", banner_width \div 2, 130, 0, 0, 0, title, NoVal, NoVal)>>
         \o (IF truthy(tagline)
             THEN <<E("tagline", banner_width \div 2, 165, 0, 0, 0, tagline, NoVal, NoVal)>>
             ELSE <<>>))

svg_banner_coloured(c, pcolor, found) ==
    svg_banner_document(c, banner_color(found[1], default_primary_of(pcolor)),
                        banner_color(found[2], default_secondary))

generate_svg_banner(c, grad, pcolor) ==
    svg_banner_coloured(c, pcolor, extract_gradient_colors(grad, pcolor))

card_width == 280
card_height == 100
card_padding == 20
card_gap == 16
cards_per_row == 3

\* line 1421: [c for c in card.contacts[:6] if c.get('value')]
RECURSIVE valid_contacts_of(_)
valid_contacts_of(contacts) ==
    IF contacts = <<>> THEN <<>>
    ELSE (IF truthy(get(Head(contacts).value, Null)) THEN <<Head(contacts)>> ELSE <<>>)
         \o valid_contacts_of(Tail(contacts))

\* value[:30] + '...' if len(value) > 30 else value
contact_truncate(value) ==
    IF Len(value.s) > 30 THEN Str(Take(value.s, 30) \o <<".", ".", ".">>) ELSE value

\* lines 1459-1507: the card of one contact, i counted from 0
svg_contact_card(contact, i) ==
    LET x == card_padding + (i % cards_per_row) * (card_width + card_gap)
        y == card_padding + (i \div cards_per_row) * (card_height + card_gap)
        label == escape(get(contact.label, Str(<<>>)))
        value == escape(get(contact.value, Str(<<>>)))
        contact_type == get(contact.type, Str(<<>>))
        icon_slug == CONTACT_ICON_MAP(contact_type)
    IN IF IsErr(label) \/ IsErr(value) THEN <<Raise>>
       ELSE <<E("contact_card", x, y, card_width, card_height, i, NoVal, NoVal, NoVal),
              (IF truthy(icon_slug)
               THEN E("contact_icon", x + 20, y + 20, 32, 32, i, NoVal, icon_slug, NoVal)
               ELSE Lit("contact_circle", x + 36, y + 36, 0, 0)),
              E("contact_label", x + 60, y + 35, 0, 0, i,
                display_label_of(label, contact_type), NoVal, NoVal),
              E("contact_value", x + 20, y + 70, 0, 0, i, contact_truncate(value),
                NoVal, NoVal)>>

\* lines 1428-1457: the canvas around the cards
svg_contact_document(valid_contacts) ==
    LET num_rows == (Len(valid_contacts) + cards_per_row - 1) \div cards_per_row
        w == card_width * cards_per_row + card_gap * (cards_per_row - 1)
               + card_padding * 2
        h == card_height * num_rows + card_gap * (num_rows - 1) + card_padding * 2
    IN result(
         <<E("svg", 0, 0, w, h, 0, NoVal, NoVal, NoVal),
           Lit("background", 0, 0, w, h)>>
         \o Flatten([i \in 1..Len(valid_contacts) |->
                       svg_contact_card(valid_contacts[i], i - 1)]))

\* lines 1406-1512: the empty string when there is nothing to draw
generate_svg_contact(c) ==
    IF ~c.show_contact \/ c.contacts = <<>> THEN <<>>
    ELSE IF valid_contacts_of(Take(c.contacts, MaxContactsDrawn)) = <<>> THEN <<>>
    ELSE svg_contact_document(valid_contacts_of(Take(c.contacts, MaxContactsDrawn)))

\* lines 1538-1540: the card drawn for one repository
repo_card_width == 800
repo_card_height == 140
repo_card_padding == 24
max_desc_length == 80

\* lines 1577-1578: repo_description[:80] + "..." when it is longer
repo_truncate(description) ==
    IF Len(description.s) > max_desc_length
    THEN Str(Take(description.s, max_desc_length) \o <<".", ".", ".">>)
    ELSE description

\* lines 1514-1594: the name, the language badge when there is a language,
\* the description when there is one, and the line of the two counts
generate_svg_repository_banner(repo) ==
    LET repo_name == escape(get(repo.name, Str(<<>>)))
        repo_description == escape_if_set(repo.description)
        repo_language == escape_if_set(repo.language)
        language_x == repo_card_width - repo_card_padding - 80
        stats_y == repo_card_height - 20
    IN IF IsErr(repo_name) THEN <<Raise>>
       ELSE <<E("svg", 0, 0, repo_card_width, repo_card_height, 0, NoVal, NoVal, NoVal),
              Lit("background", 0, 0, repo_card_width, repo_card_height),
              E("repo_name", repo_card_padding, 40, 0, 0, 0, repo_name, NoVal, NoVal)>>
            \o (IF truthy(repo_language)
                THEN <<E("repo_language", language_x, 20, 80, 24, 0, repo_language,
                         NoVal, NoVal)>>
                ELSE <<>>)
            \o (IF truthy(repo_description)
                THEN <<E("repo_description", repo_card_padding, 75, 0, 0, 0,
                         repo_truncate(repo_description), NoVal, NoVal)>>
                ELSE <<>>)
            \o <<Lit("repo_counts", repo_card_padding, stats_y, 0, 0)>>

(***************************************************************************)
(* Cards                                                                   *)
(***************************************************************************)
Rep(c, n) == [i \in 1..n |-> c]

Card(name, title, tagline, show_stacks, show_contact, show_github_stats, stacks, contacts) ==
    [name |-> name, title |-> title, tagline |-> tagline,
     show_stacks |-> show_stacks, show_contact |-> show_contact,
     show_github_stats |-> show_github_stats,
     stacks |-> stacks, contacts |-> contacts,
     stack_alignment |-> Null, show_baekjoon |-> FALSE, baekjoon_id |-> Null,
     repositories |-> <<>>, stack_label_lang |-> Str(<<"e", "n">>)]

Repository(name, description, html_url, language) ==
    [name |-> name, description |-> description, html_url |-> html_url,
     language |-> language]

Stack(key, label, category, color) ==
    [key |-> key, label |-> label, category |-> category, color |-> color]

Contact(type, label, value) == [type |-> type, label |-> label, value |-> value]

SeqsUpTo(S, n) == UNION { [1..k -> S] : k \in 0..n }

S_language == <<"l", "a", "n", "g", "u", "a", "g", "e">>
S_tool == <<"t", "o", "o", "l">>
S_name == <<"A", "d", "a">>
S_title == <<"D", "e", "v">>
S_blue == <<"#", "3", "1", "7", "8", "c", "6">>

(***************************************************************************)
(* Specification of the badge layout: generate_svg on cards whose stacks   *)
(* have labels of several lengths, in two categories                       *)
(***************************************************************************)
MaxStacks == 4
ManyStacks == 25
MaxTallBadges == 8

LayoutLabels ==
    { <<"G", "o">>, <<"R", "&", "D">>, Rep("m", 16), Rep("w", 30) }

LayoutStacks ==
    { Stack(Absent, Str(l), Str(c), Str(S_blue)) :
        l \in LayoutLabels, c \in {S_language, S_tool} }

LayoutStackLists ==
    SeqsUpTo(LayoutStacks, MaxStacks)
      \cup { [i \in 1..ManyStacks |-> Stack(Absent, Str(<<"G", "o">>), Str(S_tool), Str(S_blue))] }

\* cards with the same number of badges of one width in two categories,
\* with or without the sections that follow the stacks
TallLabelLengths == {2, 8}

TallStacks(n, len) ==
    [i \in 1..(2 * n) |->
       Stack(Absent, Str(Rep("m", len)),
             Str(IF i <= n THEN S_language ELSE S_tool), Str(S_blue))]

TallCards ==
    { Card(Str(S_name), Str(S_title), Null, TRUE, sc, sg, TallStacks(n, len),
           <<Contact(Str(<<"m", "a", "i", "l">>), Str(<<"M", "a", "i", "l">>),
                     Str(<<"a", "@", "b", ".", "c">>))>>) :
        sc \in BOOLEAN, sg \in BOOLEAN, n \in (MaxTallBadges - 1)..MaxTallBadges,
        len \in TallLabelLengths }

InitLayout ==
    /\ pc = "start"
    /\ gradient = <<>>
    /\ primary_color = <<>>
    /\ colors = <<>>
    /\ \/ /\ \E ss \in LayoutStackLists :
                card = Card(Str(S_name), Str(S_title), Null, TRUE, FALSE, FALSE, ss, <<>>)
          /\ stats = NoStats
       \/ /\ card \in TallCards
          /\ stats = [tag |-> "dict", repositories |-> IntStat(7), stars |-> IntStat(7),
                      followers |-> IntStat(7), following |-> IntStat(7)]
    /\ renderer = "none"
    /\ output = <<>>
    /\ ImageIdle
    /\ OAuthIdle
    /\ VisitIdle
    /\ SyncIdle

GenerateSvg ==
    /\ pc = "start"
    /\ card # <<>>
    /\ output' = generate_svg(card, gradient, primary_color, stats)
    /\ renderer' = "svg"
    /\ pc' = "done"
    /\ UNCHANGED <<gradient, primary_color, colors, card, stats>>
    /\ UNCHANGED <<image_vars, oauth_vars, visit_vars, sync_vars>>

NextLayout == GenerateSvg

SpecLayout == InitLayout /\ [][NextLayout]_vars

(***************************************************************************)
(* Specification of the three renderers: generate_svg, generate_html and   *)
(* generate_readme_template on cards whose optional data are absent, None  *)
(* or strings, some of them with markup characters                         *)
(***************************************************************************)
MaxRenderStacks == 2
MaxRenderContacts == 2
MaxRenderRepositories == 1

BaseCard == Card(Str(S_name), Str(S_title), Null, FALSE, FALSE, FALSE, <<>>, <<>>)

BaseStack == Stack(Str(<<"g", "o">>), Str(<<"G", "o">>), Str(S_language), Str(S_blue))

\* an entry, and the entries that differ from it in one respect
RenderStacks ==
    { BaseStack,
      [BaseStack EXCEPT !.key = Str(<<"j", "a", "v", "a">>), !.label = Str(<<"J", "a", "v", "a">>)],
      [BaseStack EXCEPT !.key = Absent, !.label = Absent],
      [BaseStack EXCEPT !.key = Null, !.label = Absent],
      [BaseStack EXCEPT !.label = Null],
      [BaseStack EXCEPT !.key = Absent, !.label = Str(<<"R", "&", "D">>)],
      [BaseStack EXCEPT !.label = Str(<<"<", "b", ">">>)],
      [BaseStack EXCEPT !.category = Absent],
      [BaseStack EXCEPT !.category = Null],
      [BaseStack EXCEPT !.category = Str(<<"L", "a", "n", "g", "u", "a", "g", "e">>)],
      [BaseStack EXCEPT !.category = Str(<<"g", "a", "d", "g", "e", "t">>)],
      [BaseStack EXCEPT !.category = Str(<<"-", "-", ">", "<", "x">>)],
      [BaseStack EXCEPT !.color = Absent],
      [BaseStack EXCEPT !.color = Null],
      [BaseStack EXCEPT !.color = Str(<<"#", "f", "f", "f">>)],
      [BaseStack EXCEPT !.color = Str(<<"#", "-", "1", "-", "2", "-", "3">>)],
      [BaseStack EXCEPT !.color = Str(<<"#", "f", "f", "f", "f", "f", "f", "\"", ">", "<", "x">>)] }

BaseContact == Contact(Str(<<"m", "a", "i", "l">>), Str(<<"M", "a", "i", "l">>), Str(<<"a", "@", "b", ".", "c">>))

RenderContacts ==
    { BaseContact,
      [BaseContact EXCEPT !.label = Absent],
      [BaseContact EXCEPT !.label = Null],
      [BaseContact EXCEPT !.label = Str(<<"R", "&", "D">>)],
      [BaseContact EXCEPT !.type = Absent],
      [BaseContact EXCEPT !.type = Null, !.label = Str(<<>>)],
      [BaseContact EXCEPT !.type = Str(<<"<", "x", ">">>), !.label = Absent],
      [BaseContact EXCEPT !.value = Str(<<"h", "t", "t", "p", ":", "/", "/", "x", ".", "y">>)],
      [BaseContact EXCEPT !.value = Str(<<"x", ".", "y", "/", "\"", "<">>)],
      [BaseContact EXCEPT !.value = Str(<<>>)] }

RenderContactLists ==
    SeqsUpTo(RenderContacts, MaxRenderContacts)
      \cup { [i \in 1..(MaxContactsDrawn + 1) |-> BaseContact] }

BaseRepository ==
    Repository(Str(<<"r", "e", "p", "o">>), Str(<<"d", "<", "1">>), Str(<<"h", "t", "t", "p", "s", ":", "/", "/", "x", ".", "y">>), Str(<<"G", "o">>))

RenderRepositories ==
    { BaseRepository,
      [BaseRepository EXCEPT !.name = Str(<<"<", "b", ">">>)],
      [BaseRepository EXCEPT !.description = Null],
      [BaseRepository EXCEPT !.description = Absent],
      [BaseRepository EXCEPT !.language = Null],
      [BaseRepository EXCEPT !.language = Absent] }

\* the snapshot: None, or a dict whose metrics are absent, None or a number
RenderStats ==
    { NoStats } \cup
    { [tag |-> "dict", repositories |-> a, stars |-> b,
       followers |-> c, following |-> d] :
        a \in {NoStat, NullStat, IntStat(0), IntStat(7)},
        b \in {NoStat, NullStat, IntStat(0), IntStat(7)},
        c \in {NullStat, IntStat(7)}, d \in {NoStat, IntStat(7)} }

StackCases ==
    { [card |-> [BaseCard EXCEPT !.show_stacks = f, !.stacks = ss,
                                 !.stack_alignment = al],
       stats |-> NoStats] :
        f \in BOOLEAN, ss \in SeqsUpTo(RenderStacks, MaxRenderStacks),
        al \in {Null, Str(<<"l", "e", "f", "t">>)} }

ContactCases ==
    { [card |-> [BaseCard EXCEPT !.show_contact = f, !.contacts = cc,
                                 !.tagline = t],
       stats |-> NoStats] :
        f \in BOOLEAN, cc \in RenderContactLists,
        t \in {Null, Str(<<>>), Str(<<"<", "i", ">">>)} }

StatsCases ==
    { [card |-> [BaseCard EXCEPT !.show_github_stats = f, !.show_baekjoon = b,
                                 !.baekjoon_id = h],
       stats |-> st] :
        f \in BOOLEAN, b \in BOOLEAN, h \in {Null, Str(<<"a", "&", "b">>), Str(<<"a", "_", "b">>)}, st \in RenderStats }

RepositoryCases ==
    { [card |-> [BaseCard EXCEPT !.name = n, !.repositories = rr],
       stats |-> NoStats] :
        n \in {Str(S_name), Str(<<"A", "&", "B">>)},
        rr \in SeqsUpTo(RenderRepositories, MaxRenderRepositories) }

\* cards with one entry and each kind of language flag
LanguageFlags == {Absent, Null, Str(<<>>), Str(<<"k", "o">>), Str(<<"e", "n">>), Str(<<"f", "r">>)}

LanguageCases ==
    { [card |-> [BaseCard EXCEPT !.show_stacks = TRUE, !.stacks = <<st>>,
                                 !.stack_label_lang = lang],
       stats |-> NoStats] :
        st \in {BaseStack, [BaseStack EXCEPT !.category = Str(<<"a", "i", "-", "m", "l">>)],
                [BaseStack EXCEPT !.category = Absent]},
        lang \in LanguageFlags }

\* cards with one entry whose category is written in another case or with
\* blanks around it
CategoryStrings ==
    { <<"B", "a", "c", "k", "e", "n", "d", " ">>, <<"B", "a", "c", "k", "e", "n", "d">>,
      <<" ", "b", "a", "c", "k", "e", "n", "d">>, <<"B", "A", "C", "K", "E", "N", "D">>,
      <<"b", "a", "c", "k", " ", "e", "n", "d">>, <<"D", "e", "v", "O", "p", "s", " ">> }

CategoryCases ==
    { [card |-> [BaseCard EXCEPT !.show_stacks = TRUE,
                                 !.stacks = <<[BaseStack EXCEPT !.category = Str(cat)]>>],
       stats |-> NoStats] :
        cat \in CategoryStrings }

\* cards with one entry whose icon is looked up with its key or with its label
IconKeys == {Absent, Null, Str(<<>>), Str(<<"c", "p", "p">>), Str(<<"G", "o">>), Str(<<"z", "z">>)}

IconLabels ==
    { <<"N", "o", "d", "e", ".", "j", "s">>,
      <<"N", "o", "d", "e", " ", "j", "s">>,
      <<"C", "+", "+">>,
      <<"c", "+", "+">>,
      <<"C", "+", ".", "+">>,
      <<"R", "e", "a", "c", "t", " ", "N", "a", "t", "i", "v", "e">>,
      <<"S", "p", "r", "i", "n", "g", " ", "B", "o", "o", "t">>,
      <<"G", "o">>,
      <<"R", "&", "D">>,
      <<"Z", "i", "g">> }

IconCases ==
    { [card |-> [BaseCard EXCEPT !.show_stacks = TRUE,
                                 !.stacks = <<[BaseStack EXCEPT !.key = key,
                                                                !.label = Str(label)]>>],
       stats |-> NoStats] :
        key \in IconKeys, label \in IconLabels }

\* cards with one contact whose value is an address, a link, a bare host or
\* a text that starts with http
LinkValues ==
    { <<"a", "@", "b", ".", "c">>,
      <<"h", "t", "t", "p", ":", "/", "/", "x", ".", "y">>,
      <<"h", "t", "t", "p", "s", ":", "/", "/", "x", ".", "y">>,
      <<"x", ".", "y">>,
      <<"h", "t", "t", "p", "b", "i", "n", "@", "x", ".", "y">>,
      <<"h", "t", "t", "p", "x", ".", "y">>,
      <<"h", "t", "t", "p", ":", "/", "/", "a", "@", "b">>,
      <<"h", "t", "t", "p", "s", "@", "x", ".", "y">>,
      <<"a", "&", "b", "@", "c">>,
      <<"H", "T", "T", "P", ":", "/", "/", "x", ".", "y">> }

LinkCases ==
    { [card |-> [BaseCard EXCEPT !.show_contact = TRUE,
                                 !.contacts = <<[BaseContact EXCEPT !.value = Str(value)]>>],
       stats |-> NoStats] :
        value \in LinkValues }

RenderCases ==
    StackCases \cup ContactCases \cup StatsCases \cup RepositoryCases \cup LanguageCases
      \cup CategoryCases \cup IconCases \cup LinkCases

RenderGradients == { <<>>, <<"#", "a", "a", "b", "b", "c", "c", " ", "#", "a", "b", "c">> }

InitRender ==
    /\ pc = "start"
    /\ gradient \in RenderGradients
    /\ primary_color \in PrimaryColorInputs
    /\ colors = <<>>
    /\ \E rc \in RenderCases : card = rc.card /\ stats = rc.stats
    /\ renderer = "none"
    /\ output = <<>>
    /\ ImageIdle
    /\ OAuthIdle
    /\ VisitIdle
    /\ SyncIdle

GenerateHtml ==
    /\ pc = "start"
    /\ card # <<>>
    /\ output' = generate_html(card, gradient, primary_color)
    /\ renderer' = "html"
    /\ pc' = "done"
    /\ UNCHANGED <<gradient, primary_color, colors, card, stats>>
    /\ UNCHANGED <<image_vars, oauth_vars, visit_vars, sync_vars>>

\* the label found for an entry written back into the entry of the card
GenerateReadme_writing_back ==
    /\ pc = "start"
    /\ card # <<>>
    /\ output' = generate_readme_template(card, stats)
    /\ renderer' = "readme"
    /\ pc' = "done"
    /\ card' = [card EXCEPT !.stacks =
                  [k \in 1..Len(card.stacks) |->
                     [card.stacks[k] EXCEPT !.label =
                        or(get(card.stacks[k].label, Null),
                           get(card.stacks[k].key, Str(<<>>)))]]]
    /\ UNCHANGED <<gradient, primary_color, colors, stats>>
    /\ UNCHANGED <<image_vars, oauth_vars, visit_vars, sync_vars>>

GenerateReadme ==
    /\ pc = "start"
    /\ card # <<>>
    /\ output' = generate_readme_template(card, stats)
    /\ renderer' = "readme"
    /\ pc' = "done"
    /\ UNCHANGED <<gradient, primary_color, colors, card, stats>>
    /\ UNCHANGED <<image_vars, oauth_vars, visit_vars, sync_vars>>

GenerateSvgBanner ==
    /\ pc = "start"
    /\ card # <<>>
    /\ output' = generate_svg_banner(card, gradient, primary_color)
    /\ renderer' = "svg_banner"
    /\ pc' = "done"
    /\ UNCHANGED <<gradient, primary_color, colors, card, stats>>
    /\ UNCHANGED <<image_vars, oauth_vars, visit_vars, sync_vars>>

GenerateSvgContact ==
    /\ pc = "start"
    /\ card # <<>>
    /\ output' = generate_svg_contact(card)
    /\ renderer' = "svg_contact"
    /\ pc' = "done"
    /\ UNCHANGED <<gradient, primary_color, colors, card, stats>>
    /\ UNCHANGED <<image_vars, oauth_vars, visit_vars, sync_vars>>

NextRender ==
    \/ GenerateSvg
    \/ GenerateHtml
    \/ GenerateReadme
    \/ GenerateSvgBanner
    \/ GenerateSvgContact

SpecRender == InitRender /\ [][NextRender]_vars

(***************************************************************************)
(* Long texts: the renderers that cut a text (generate_svg 1220,           *)
(* generate_svg_contact 1467-1475, generate_svg_repository_banner 1577)    *)
(***************************************************************************)
\* how far before a cut the special character is placed, and how many
\* characters follow it
Slack == 5
MaxTail == 3

\* the three lengths at which a text is cut
Cuts == {30, 40, max_desc_length}

\* k plain characters, one character c, m plain characters
TextWith(k, c, m) == Rep("a", k) \o <<c>> \o Rep("b", m)

LongTexts ==
    { Rep("a", n) : n \in {1} \cup Cuts \cup { cut + 1 : cut \in Cuts } }
      \cup { TextWith(k, c, m) :
               k \in {0} \cup UNION { (cut - Slack)..cut : cut \in Cuts },
               c \in {"&", "\"", "<"},
               m \in {0, MaxTail} }

InitTruncate ==
    /\ pc = "start"
    /\ gradient = <<>>
    /\ primary_color = <<>>
    /\ colors = <<>>
    /\ \E t \in LongTexts :
          card = [Card(Str(S_name), Str(S_title), Null, FALSE, TRUE, FALSE, <<>>,
                       <<[BaseContact EXCEPT !.value = Str(t)]>>)
                    EXCEPT !.repositories =
                             <<[BaseRepository EXCEPT !.description = Str(t)]>>]
    /\ stats = NoStats
    /\ renderer = "none"
    /\ output = <<>>
    /\ ImageIdle
    /\ OAuthIdle
    /\ VisitIdle
    /\ SyncIdle

\* router.py 661-667: the banner of one repository of the card
GenerateSvgRepositoryBanner ==
    /\ pc = "start"
    /\ card # <<>>
    /\ \E repo_index \in 0..(Len(card.repositories) - 1) :
          output' = generate_svg_repository_banner(card.repositories[repo_index + 1])
    /\ renderer' = "svg_repository_banner"
    /\ pc' = "done"
    /\ UNCHANGED <<gradient, primary_color, colors, card, stats>>
    /\ UNCHANGED <<image_vars, oauth_vars, visit_vars, sync_vars>>

NextTruncate ==
    \/ GenerateSvg
    \/ GenerateSvgContact
    \/ GenerateSvgRepositoryBanner

SpecTruncate == InitTruncate /\ [][NextTruncate]_vars

(***************************************************************************)
(* generate_image_screenshot and the image endpoint                        *)
(* (src/app/profiles/exporters.py 208-560, src/app/profiles/router.py      *)
(* 415-472).  A call of the function that is awaited is identified by its  *)
(* source line.                                                            *)
(***************************************************************************)

\* An awaited call: its source line, what it waits for, the timeout it is
\* given in milliseconds (0 when it is given none) and what bounds the wait:
\*   "timeout"  the timeout argument of the call
\*   "timer"    a timer of its own (wait_for_timeout, setTimeout in the script)
\*   "default"  no argument is passed: the default of the library applies
\*   "call"     an operation on the page, no condition is waited for
\*   "none"     a promise of the page is awaited and nothing bounds the wait
Call(at, waits_for, timeout, bound) == [line |-> at, waits_for |-> waits_for, timeout |-> timeout, bound |-> bound]

awaits ==
    << Call(240, "launch", 0, "default"),
       Call(243, "operation", 0, "call"),
       Call(249, "operation", 0, "call"),
       Call(257, "navigation", 30000, "timeout"),
       Call(262, "selector", 10000, "timeout"),
       Call(266, "selector", 10000, "timeout"),
       Call(269, "network_idle", 30000, "timeout"),
       Call(272, "fonts", 0, "none"),
       Call(273, "sleep", 500, "timer"),
       Call(276, "images", 10000, "timer"),
       Call(303, "stylesheets", 2000, "timer"),
       Call(323, "sleep", 1000, "timer"),
       Call(326, "operation", 0, "call"),
       Call(327, "sleep", 500, "timer"),
       Call(330, "query", 0, "call"),
       Call(333, "query", 0, "call"),
       Call(337, "measure", 0, "call"),
       Call(407, "operation", 0, "call"),
       Call(411, "sleep", 500, "timer"),
       Call(414, "reload", 30000, "timeout"),
       Call(417, "network_idle", 30000, "timeout"),
       Call(420, "fonts", 0, "none"),
       Call(421, "sleep", 500, "timer"),
       Call(424, "images", 10000, "timer"),
       Call(451, "stylesheets", 2000, "timer"),
       Call(471, "sleep", 1500, "timer"),
       Call(474, "query", 0, "call"),
       Call(476, "query", 0, "call"),
       Call(480, "measure", 0, "call"),
       Call(494, "operation", 0, "call"),
       Call(498, "operation", 0, "call"),
       Call(502, "operation", 0, "call"),
       Call(507, "sleep", 1000, "timer"),
       Call(510, "frame", 500, "timer"),
       Call(524, "query", 0, "call"),
       Call(526, "query", 0, "call"),
       Call(530, "screenshot", 15000, "timeout"),
       Call(536, "screenshot", 0, "default"),
       Call(539, "scroll_into_view", 0, "default"),
       Call(540, "sleep", 1000, "timer"),
       Call(541, "screenshot", 10000, "timeout"),
       Call(544, "screenshot", 0, "default"),
       Call(546, "operation", 0, "call") >>

Lines == {awaits[i].line : i \in 1..Len(awaits)}

index_of(at) == CHOOSE i \in 1..Len(awaits) : awaits[i].line = at

call_at(at) == awaits[index_of(at)]

\* the calls whose value decides a branch: an element or None, a record or null
Deciding == {330, 333, 337, 474, 476, 480, 524, 526}

values_at(at) == IF at \in Deciding THEN BOOLEAN ELSE {TRUE}

\* the call awaited next when the call at line at has returned value (its truth value)
after(at, value) ==
    CASE at = 262 -> 269
      [] at = 330 -> IF value THEN 337 ELSE 333
      [] at = 333 -> IF value THEN 337 ELSE 544
      [] at = 337 -> IF value THEN 407 ELSE 539
      [] at = 474 -> IF value THEN 480 ELSE 476
      [] at = 476 -> IF value THEN 480 ELSE 502
      [] at = 480 -> IF value THEN 494 ELSE 498
      [] at \in {494, 498, 502} -> 507
      [] at = 524 -> IF value THEN 530 ELSE 526
      [] at = 526 -> IF value THEN 530 ELSE 536
      [] at \in {530, 536, 541, 544} -> 546
      [] OTHER -> awaits[index_of(at) + 1].line

\* the exceptions the call at line at can raise: all of them derive from Exception
exceptions_at(at) ==
    {"Error"}
      \cup (IF call_at(at).bound \in {"timeout", "default"} THEN {"TimeoutError"} ELSE {})
      \cup (IF at = 240 THEN {"Executable doesn't exist"} ELSE {})

\* if format not in ("png", "webp"): format = "png"
valid_format(f) == IF f \in {"png", "webp"} THEN f ELSE "png"

\* the handler of the try statement that encloses the calls, re-raising
except_reraising(at) == [step |-> "raised", screenshot |-> "pending"]

\* except Exception as e: ... return None
except_Exception(at) == [step |-> "returned", screenshot |-> "None"]

RequestFormats == {"png", "webp", "gif"}

InitImage ==
    /\ RenderIdle
    /\ OAuthIdle
    /\ VisitIdle
    /\ SyncIdle
    /\ PLAYWRIGHT_AVAILABLE \in BOOLEAN
    /\ request \in [card : BOOLEAN, format : RequestFormats]
    /\ step = "request"
    /\ line = 0
    /\ format = ""
    /\ card_selector = ""
    /\ card_element = FALSE
    /\ failure = <<>>
    /\ screenshot = "pending"
    /\ response = 0

\* get_profile_card_image up to the call of generate_image_screenshot
GetProfileCardImage ==
    /\ step = "request"
    /\ IF ~request.card
         THEN /\ response' = 404
              /\ step' = "responded"
              /\ UNCHANGED format
         ELSE /\ format' = valid_format(request.format)
              /\ step' = "call"
              /\ UNCHANGED response
    /\ UNCHANGED <<PLAYWRIGHT_AVAILABLE, request, line, card_selector, card_element, failure, screenshot>>
    /\ UNCHANGED <<render_vars, oauth_vars, visit_vars, sync_vars>>

\* generate_image_screenshot up to its first awaited call
Enter ==
    /\ step = "call"
    /\ format' = valid_format(format)
    /\ IF ~PLAYWRIGHT_AVAILABLE
         THEN /\ screenshot' = "None"
              /\ step' = "returned"
              /\ UNCHANGED line
         ELSE /\ step' = "await"
              /\ line' = awaits[1].line
              /\ UNCHANGED screenshot
    /\ UNCHANGED <<PLAYWRIGHT_AVAILABLE, request, card_selector, card_element, failure, response>>
    /\ UNCHANGED <<render_vars, oauth_vars, visit_vars, sync_vars>>

\* the awaited call returns
Completes ==
    /\ step = "await"
    /\ \E value \in values_at(line) :
         /\ card_element' = IF call_at(line).waits_for = "query" THEN value ELSE card_element
         /\ IF line = 546
              THEN /\ step' = "returned"
                   /\ line' = 0
                   /\ screenshot' = "bytes"
              ELSE /\ line' = after(line, value)
                   /\ UNCHANGED <<step, screenshot>>
    /\ card_selector' = IF line = 257 THEN "[data-testid=\"gitcard-root\"]" ELSE card_selector
    /\ UNCHANGED <<PLAYWRIGHT_AVAILABLE, request, format, failure, response>>
    /\ UNCHANGED <<render_vars, oauth_vars, visit_vars, sync_vars>>

\* the awaited call raises: its timeout expires or the browser reports an error
Raises ==
    /\ step = "await"
    /\ \E exc \in exceptions_at(line) :
         failure' = Append(failure, [line |-> line, exc |-> exc])
    /\ IF line = 262
         THEN /\ card_selector' = ".cardWrapper"
              /\ line' = 266
              /\ UNCHANGED <<step, screenshot>>
         ELSE /\ step' = except_Exception(line).step
              /\ screenshot' = except_Exception(line).screenshot
              /\ line' = 0
              /\ UNCHANGED card_selector
    /\ UNCHANGED <<PLAYWRIGHT_AVAILABLE, request, format, card_element, response>>
    /\ UNCHANGED <<render_vars, oauth_vars, visit_vars, sync_vars>>

\* the promise the call awaits is never settled and nothing bounds the wait
NeverSettles ==
    /\ step = "await"
    /\ call_at(line).bound = "none"
    /\ step' = "blocked"
    /\ UNCHANGED <<PLAYWRIGHT_AVAILABLE, request, line, format, card_selector, card_element, failure, screenshot, response>>
    /\ UNCHANGED <<render_vars, oauth_vars, visit_vars, sync_vars>>

\* get_profile_card_image after generate_image_screenshot has returned; an
\* exception that reaches the endpoint is answered with 500 by the framework
Respond ==
    /\ step \in {"returned", "raised"}
    /\ response' = IF step = "raised" THEN 500
                   ELSE IF screenshot = "None" THEN 503
                   ELSE 200
    /\ step' = "responded"
    /\ UNCHANGED <<PLAYWRIGHT_AVAILABLE, request, line, format, card_selector, card_element, failure, screenshot>>
    /\ UNCHANGED <<render_vars, oauth_vars, visit_vars, sync_vars>>

NextImage ==
    \/ GetProfileCardImage
    \/ Enter
    \/ Completes
    \/ Raises
    \/ NeverSettles
    \/ Respond

SpecImage == InitImage /\ [][NextImage]_vars

\* the event loop resumes the coroutine whenever the awaited call has settled
SpecImageFair == SpecImage /\ WF_vars(NextImage)

(***************************************************************************)
(* The OAuth state store (src/app/auth/storage.py) and the two handlers    *)
(* that use it (src/app/auth/router.py).  The clock counts minutes.        *)
(* uuid.uuid4() is taken to return a value it has not returned before.     *)
(***************************************************************************)
STATE_EXPIRATION_MINUTES == 10

\* how many states are issued, and how far the clock runs
MaxStates == 2
MaxNow == 12

\* the values uuid.uuid4() can return, and any value a request can carry
States == 1..MaxStates

\* state in _state_store
stored(store, state) == \E entry \in store : entry.state = state

\* _state_store[state]
created_at_of(store, state) == (CHOOSE entry \in store : entry.state = state).created_at

\* now > created_at + timedelta(minutes=STATE_EXPIRATION_MINUTES)
expired(created_at, utcnow) == utcnow > created_at + STATE_EXPIRATION_MINUTES

\* del _state_store[state] left out
del_skipped(store, state) == store

\* del _state_store[state]
del(store, state) == {entry \in store : entry.state # state}

\* validate_state: what it returns and the store it leaves
validate_state(store, state, utcnow) ==
    IF ~stored(store, state) THEN [valid |-> FALSE, store |-> store]
    ELSE IF expired(created_at_of(store, state), utcnow)
    THEN [valid |-> FALSE, store |-> del(store, state)]
    ELSE [valid |-> TRUE, store |-> del(store, state)]

InitOAuth ==
    /\ RenderIdle
    /\ ImageIdle
    /\ VisitIdle
    /\ SyncIdle
    /\ state_store = {}
    /\ now = 0
    /\ issued = {}
    /\ accepted = [state \in States |-> 0]
    /\ last = [op |-> "none", state |-> 0, valid |-> FALSE, status |-> 0]

\* GET /auth/github/login: generate_state, then the redirect to GitHub
GithubLogin ==
    /\ \E state \in States \ issued :
         /\ state_store' = state_store \cup {[state |-> state, created_at |-> now]}
         /\ issued' = issued \cup {state}
         /\ last' = [op |-> "github_login", state |-> state, valid |-> FALSE, status |-> 302]
    /\ UNCHANGED <<now, accepted>>
    /\ UNCHANGED <<render_vars, image_vars, visit_vars, sync_vars>>

\* GET /auth/github/callback with the state parameter state: 400 when
\* validate_state returns False; otherwise the exchange of the code, which
\* ends in the redirect or in 400
GithubCallback(state) ==
    /\ LET v == validate_state(state_store, state, now)
       IN /\ state_store' = v.store
          /\ accepted' = IF v.valid THEN [accepted EXCEPT ![state] = @ + 1] ELSE accepted
          /\ \E status \in (IF v.valid THEN {302, 400} ELSE {400}) :
               last' = [op |-> "github_callback", state |-> state,
                        valid |-> v.valid, status |-> status]
    /\ UNCHANGED <<now, issued>>
    /\ UNCHANGED <<render_vars, image_vars, visit_vars, sync_vars>>

\* cleanup_expired_states
CleanupExpiredStates ==
    /\ state_store' = {entry \in state_store : ~expired(entry.created_at, now)}
    /\ last' = [op |-> "cleanup_expired_states", state |-> 0, valid |-> FALSE, status |-> 0]
    /\ UNCHANGED <<now, issued, accepted>>
    /\ UNCHANGED <<render_vars, image_vars, visit_vars, sync_vars>>

\* a minute passes
Tick ==
    /\ now < MaxNow
    /\ now' = now + 1
    /\ UNCHANGED <<state_store, issued, accepted, last>>
    /\ UNCHANGED <<render_vars, image_vars, visit_vars, sync_vars>>

NextOAuth ==
    \/ GithubLogin
    \/ \E state \in States : GithubCallback(state)
    \/ CleanupExpiredStates
    \/ Tick

SpecOAuth == InitOAuth /\ [][NextOAuth]_vars

(***************************************************************************)
(* Visitor counting: POST /visit (src/app/dashboard/router.py 30-42,       *)
(* src/app/dashboard/crud.py 10-35, src/app/dashboard/db_models.py 9-17).  *)
(* The handler is a coroutine that never awaits, so the requests of one    *)
(* server process run one after the other; requests of different server    *)
(* processes on the same database interleave between their statements.    *)
(***************************************************************************)
MaxVisits == 3
MaxWorkers == 2

Visits == 1..MaxVisits
Workers == 1..MaxWorkers

\* date.today(), the same for every request
today == 1

\* VisitorStats(date=today, visitors=1)
VisitorStats(date, visitors) == [date |-> date, visitors |-> visitors]

\* db.query(VisitorStats).filter(VisitorStats.date == today).first():
\* the visitors of the row, 0 for None
first_visitors(table, date) ==
    IF \E i \in 1..Len(table) : table[i].date = date
    THEN table[CHOOSE i \in 1..Len(table) : table[i].date = date].visitors
    ELSE 0

\* date = Column(Date, unique=True): whether an INSERT of the date is refused
unique_violated(table, date) == \E i \in 1..Len(table) : table[i].date = date

\* lines 23-30 then db.commit(): the UPDATE writes the count that was read
\* plus one; the INSERT adds a row with count 1
commit_of(table, date, read) ==
    IF read # 0
    THEN [i \in 1..Len(table) |->
            IF table[i].date = date THEN VisitorStats(date, read + 1) ELSE table[i]]
    ELSE Append(table, VisitorStats(date, 1))

Visit(pos, worker, read, status) ==
    [pc |-> pos, worker |-> worker, read |-> read, status |-> status]

\* the event loop of a server process is inside a handler
busy(worker) ==
    \E r \in Visits : visits[r].worker = worker /\ visits[r].pc \in {"queried", "committed"}

InitVisit ==
    /\ visitor_stats = <<>>
    /\ visits = [r \in Visits |-> Visit("waiting", 0, 0, 0)]
    /\ RenderIdle
    /\ ImageIdle
    /\ OAuthIdle
    /\ SyncIdle

\* crud.py 18-21: the handler of request r starts on a free server process
\* and reads the row of today
Query(r, worker) ==
    /\ visits[r].pc = "waiting"
    /\ ~busy(worker)
    /\ visits' = [visits EXCEPT ![r] =
                    Visit("queried", worker, first_visitors(visitor_stats, today), 0)]
    /\ UNCHANGED visitor_stats
    /\ UNCHANGED <<render_vars, image_vars, oauth_vars, sync_vars>>

\* crud.py 23-32: the count is raised or the row is created, and committed;
\* an INSERT that the unique constraint refuses raises IntegrityError, which
\* nothing catches: the request is answered with 500
CommitVisit(r) ==
    /\ visits[r].pc = "queried"
    /\ IF visits[r].read = 0 /\ unique_violated(visitor_stats, today)
       THEN /\ visits' = [visits EXCEPT ![r] = Visit("failed", @.worker, @.read, 500)]
            /\ UNCHANGED visitor_stats
       ELSE /\ visitor_stats' = commit_of(visitor_stats, today, visits[r].read)
            /\ visits' = [visits EXCEPT ![r] = Visit("committed", @.worker, @.read, 0)]
    /\ UNCHANGED <<render_vars, image_vars, oauth_vars, sync_vars>>

\* crud.py 33-34 and router.py 42: refresh, then the two counts are returned
RespondVisit(r) ==
    /\ visits[r].pc = "committed"
    /\ visits' = [visits EXCEPT ![r] = Visit("responded", @.worker, @.read, 200)]
    /\ UNCHANGED visitor_stats
    /\ UNCHANGED <<render_vars, image_vars, oauth_vars, sync_vars>>

NextVisit ==
    \/ \E r \in Visits, worker \in Workers : Query(r, worker)
    \/ \E r \in Visits : CommitVisit(r)
    \/ \E r \in Visits : RespondVisit(r)

SpecVisit == InitVisit /\ [][NextVisit]_vars

(***************************************************************************)
(* The sync pass of the GitHub statistics                                  *)
(* (src/app/users/github_stats_service.py 18-64)                           *)
(***************************************************************************)
MaxUsers == 3
Users == 1..MaxUsers

\* a stored statistics record: 0 for no record, 1 for the record of an
\* earlier pass; 2 is what fetch_github_stats returns in this pass
OldStats == 1
NewStats == 2

NothingPending == [u \in Users |-> 0]

\* no rollback: the pending changes stay in the session
rollback_skipped(pending) == pending

\* db.rollback() of line 61: the pending changes of the session are dropped
rollback(pending) == NothingPending

\* db.commit(): the pending changes become the stored records
committed(store, pending) ==
    [u \in Users |-> IF pending[u] # 0 THEN pending[u] ELSE store[u]]

Session(state, pending) == [state |-> state, pending |-> pending]

Sync(pos, user, fetched, attempted, outcome, raised) ==
    [pc |-> pos, user |-> user, fetched |-> fetched, attempted |-> attempted,
     outcome |-> outcome, raised |-> raised]

\* the loop of line 56 goes to the next user, or ends
next_user(user) == IF user < MaxUsers THEN [pc |-> "user", user |-> user + 1]
                   ELSE [pc |-> "finally", user |-> user]

InitSync ==
    /\ github_stats \in [Users -> {0, OldStats}]
    /\ session = Session("none", NothingPending)
    /\ sync = Sync("start", 0, 0, {}, [u \in Users |-> "none"], "none")
    /\ RenderIdle
    /\ ImageIdle
    /\ OAuthIdle
    /\ VisitIdle

\* line 52: db = SessionLocal()
OpenSession ==
    /\ sync.pc = "start"
    /\ session' = Session("open", NothingPending)
    /\ sync' = [sync EXCEPT !.pc = "query_users"]
    /\ UNCHANGED github_stats
    /\ UNCHANGED <<render_vars, image_vars, oauth_vars, visit_vars>>

\* line 54: users = db.query(User).all(), outside the try of the loop: an
\* exception here ends the pass through the finally
QueryUsers ==
    /\ sync.pc = "query_users"
    /\ \/ sync' = [sync EXCEPT !.pc = "user", !.user = 1]
       \/ sync' = [sync EXCEPT !.pc = "finally", !.raised = "query_users"]
    /\ UNCHANGED <<github_stats, session>>
    /\ UNCHANGED <<render_vars, image_vars, oauth_vars, visit_vars>>

\* lines 19-25: await fetch_github_stats returns statistics, returns None,
\* raises an exception, or the task is cancelled at the await (CancelledError
\* is no Exception and passes the except of line 60)
Fetch ==
    /\ sync.pc = "user"
    /\ \/ sync' = [sync EXCEPT !.pc = "record", !.fetched = NewStats,
                               !.attempted = @ \cup {sync.user}]
       \/ sync' = [sync EXCEPT !.pc = "commit", !.fetched = 0,
                               !.attempted = @ \cup {sync.user}]
       \/ sync' = [sync EXCEPT !.pc = "except", !.fetched = 0,
                               !.attempted = @ \cup {sync.user}]
       \/ sync' = [sync EXCEPT !.pc = "finally", !.fetched = 0,
                               !.attempted = @ \cup {sync.user},
                               !.raised = "cancelled"]
    /\ UNCHANGED <<github_stats, session>>
    /\ UNCHANGED <<render_vars, image_vars, oauth_vars, visit_vars>>

\* lines 27-43: the record of the user is looked up, created when there is
\* none, and given the fetched values, in the session only; the query may
\* raise
Record ==
    /\ sync.pc = "record"
    /\ \/ /\ session' = [session EXCEPT !.pending[sync.user] = sync.fetched]
          /\ sync' = [sync EXCEPT !.pc = "commit"]
       \/ /\ sync' = [sync EXCEPT !.pc = "except"]
          /\ UNCHANGED session
    /\ UNCHANGED github_stats
    /\ UNCHANGED <<render_vars, image_vars, oauth_vars, visit_vars>>

\* line 59: db.commit() stores what is pending, or raises
Commit ==
    /\ sync.pc = "commit"
    /\ \/ /\ github_stats' = committed(github_stats, session.pending)
          /\ session' = [session EXCEPT !.pending = NothingPending]
          /\ sync' = [sync EXCEPT
                        !.pc = next_user(sync.user).pc,
                        !.user = next_user(sync.user).user,
                        !.outcome[sync.user] =
                            IF sync.fetched # 0 THEN "synced" ELSE "no_stats"]
       \/ /\ sync' = [sync EXCEPT !.pc = "except"]
          /\ UNCHANGED <<github_stats, session>>
    /\ UNCHANGED <<render_vars, image_vars, oauth_vars, visit_vars>>

\* lines 60-62: except Exception: db.rollback(), a line is printed, and the
\* loop goes on
Except ==
    /\ sync.pc = "except"
    /\ session' = [session EXCEPT !.pending = rollback(session.pending)]
    /\ sync' = [sync EXCEPT
                  !.pc = next_user(sync.user).pc,
                  !.user = next_user(sync.user).user,
                  !.outcome[sync.user] = "failed"]
    /\ UNCHANGED github_stats
    /\ UNCHANGED <<render_vars, image_vars, oauth_vars, visit_vars>>

\* lines 63-64: finally: db.close(); the pass returns, or the exception that
\* ended it goes on to the caller
Close ==
    /\ sync.pc = "finally"
    /\ session' = Session("closed", NothingPending)
    /\ sync' = [sync EXCEPT !.pc = IF sync.raised = "none" THEN "done" ELSE "raised"]
    /\ UNCHANGED github_stats
    /\ UNCHANGED <<render_vars, image_vars, oauth_vars, visit_vars>>

NextSync ==
    \/ OpenSession
    \/ QueryUsers
    \/ Fetch
    \/ Record
    \/ Commit
    \/ Except
    \/ Close

SpecSync == InitSync /\ [][NextSync]_vars

(***************************************************************************)
(* What a colour token of a string is, stated without scanning: a token    *)
(* starts at i when the text at i has the shape of a hex or an rgb() colour *)
(***************************************************************************)
IsHexToken(s, i, n) ==
    /\ i + n <= Len(s)
    /\ s[i] = "#"
    /\ \A k \in 1..n : s[i + k] \in HexChars

\* a field of rgb(): optional blanks, one or more digits, optional blanks
IsNumField(f) ==
    \E a, b \in 1..Len(f) :
        /\ a <= b
        /\ \A k \in 1..Len(f) :
              IF k < a \/ k > b THEN f[k] \in Whitespace ELSE f[k] \in Digits

IsDigitChar(c) == c \in Digits

RECURSIVE DecimalValue(_, _)
DecimalValue(ds, k) ==
    IF k > Len(ds) THEN 0
    ELSE DigitVal(ds[k]) * 10 ^ (Len(ds) - k) + DecimalValue(ds, k + 1)

FieldValue(f) == DecimalValue(SelectSeq(f, IsDigitChar), 1)

\* the three fields of an rgb() token that starts at i and closes at e
RgbFields(s, i, e) ==
    LET commas == { k \in (i + 4)..(e - 1) : s[k] = "," }
        c1 == CHOOSE k \in commas : \A o \in commas : k <= o
        c2 == CHOOSE k \in commas : \A o \in commas : k >= o
    IN IF Cardinality(commas) # 2 THEN <<>>
       ELSE <<SubSeq(s, i + 4, c1 - 1), SubSeq(s, c1 + 1, c2 - 1),
              SubSeq(s, c2 + 1, e - 1)>>

IsRgbToken(s, i, e) ==
    /\ i + 4 <= e /\ e <= Len(s)
    /\ SubSeq(s, i, i + 3) = <<"r", "g", "b", "(">>
    /\ s[e] = ")"
    /\ RgbFields(s, i, e) # <<>>
    /\ \A j \in 1..3 : IsNumField(RgbFields(s, i, e)[j])

TokenStarts(s) ==
    { i \in 1..Len(s) :
        IsHexToken(s, i, 3) \/ \E e \in i..Len(s) : IsRgbToken(s, i, e) }

\* two lowercase hex digits of a channel value 0..255
Byte(n) == <<HexDigit(n \div 16), HexDigit(n % 16)>>

\* the channel values of the rgb() token at i
Channels(s, i) ==
    LET e == CHOOSE x \in i..Len(s) : IsRgbToken(s, i, x)
    IN [j \in 1..3 |-> FieldValue(RgbFields(s, i, e)[j])]

\* a token is a valid colour unless it is an rgb() with a channel above 255
IsValidToken(s, i) ==
    IsHexToken(s, i, 3) \/ \A j \in 1..3 : Channels(s, i)[j] <= 255

\* a channel as the conversion writes it: two hex digits up to 255, and as
\* many digits as the value needs above
ChannelHex(n) ==
    IF n < 256 THEN Byte(n)
    ELSE IF n < 4096
    THEN <<HexDigit(n \div 256), HexDigit((n \div 16) % 16), HexDigit(n % 16)>>
    ELSE <<HexDigit(n \div 4096), HexDigit((n \div 256) % 16),
           HexDigit((n \div 16) % 16), HexDigit(n % 16)>>

\* the hex form of the token at i (6 digits for every valid token)
TokenColor(s, i) ==
    IF IsHexToken(s, i, 6) THEN SubSeq(s, i, i + 6)
    ELSE IF IsHexToken(s, i, 3)
    THEN <<"#", s[i + 1], s[i + 1], s[i + 2], s[i + 2], s[i + 3], s[i + 3]>>
    ELSE <<"#">> \o ChannelHex(Channels(s, i)[1]) \o ChannelHex(Channels(s, i)[2])
             \o ChannelHex(Channels(s, i)[3])

ValidTokens(s) == { i \in TokenStarts(s) : IsValidToken(s, i) }

First(S) == CHOOSE i \in S : \A j \in S : i <= j
Second(S) == First(S \ {First(S)})

IsHexColor(c) ==
    /\ Len(c) = 7
    /\ c[1] = "#"
    /\ \A k \in 2..7 : c[k] \in HexChars

(***************************************************************************)
(* Claims about _extract_gradient_colors (specification SpecColor)         *)
(***************************************************************************)

\* C1: for every gradient string and primary colour the function returns a
\* pair in which each element is '#' followed by exactly six hex digits.
C1_AlwaysSixDigitHexPair ==
    pc = "done" =>
        /\ Len(colors) = 2
        /\ IsHexColor(colors[1])
        /\ IsHexColor(colors[2])

C3_NoColorGivesDefaults ==
    (pc = "done" /\ TokenStarts(gradient) = {}) =>
        colors = <<IF primary_color # <<>> THEN primary_color
                   ELSE <<"#", "6", "6", "7", "e", "e", "a">>,
                   <<"#", "7", "6", "4", "b", "a", "2">> >>

\* a non-blank gradient made of garbage has been resolved for a card that
\* has its own primary colour
C3_Witness ==
    /\ pc = "done"
    /\ TokenStarts(gradient) = {}
    /\ \E k \in 1..Len(gradient) : gradient[k] = "#"
    /\ \E k \in 1..Len(gradient) : gradient[k] = "("
    /\ primary_color = <<"#", "1", "1", "2", "2", "3", "3">>
    /\ colors[1] = primary_color

(***************************************************************************)
(* Claims about the badge layout of generate_svg (specification SpecLayout) *)
(***************************************************************************)
BadgeIndexes == { i \in 1..Len(output) : output[i].kind = "badge" }

\* the badges drawn on the row of badge i: same category, same y
RowOf(i) ==
    { j \in BadgeIndexes : output[j].n = output[i].n /\ output[j].y = output[i].y }

RECURSIVE SumOfWidths(_)
SumOfWidths(S) ==
    IF S = {} THEN 0
    ELSE LET j == CHOOSE j \in S : TRUE
         IN output[j].w + SumOfWidths(S \ {j})

\* the width taken on the row of badge i by its badges and the gaps between them
RowWidth(i) == SumOfWidths(RowOf(i)) + 12 * (Cardinality(RowOf(i)) - 1)

\* C4: on every row the badges and the gaps between them take at most the
\* usable width 780 = 900 - 40 - 40 - 40 (so at most 900 minus the two side
\* margins), every badge lies between the side margins and inside the
\* canvas, the next badge (two pieces on: a badge is followed by its text)
\* goes to a new row exactly when it would not fit any more, and the rows
\* counted for the canvas height are no wider either.
C4_RowsFitCanvas ==
    (pc = "done" /\ renderer = "svg") =>
        /\ \A i \in BadgeIndexes :
              /\ RowWidth(i) <= 780
              /\ output[i].x >= 40
              /\ output[i].x + output[i].w <= 900 - 40
        /\ \A i \in BadgeIndexes :
              (i + 2 \in BadgeIndexes /\ output[i + 2].n = output[i].n) =>
                  IF output[i].x + output[i].w + 12 + output[i + 2].w > 900 - 80
                  THEN /\ output[i + 2].x = 40
                       /\ output[i + 2].y = output[i].y + 28 + 10
                  ELSE /\ output[i + 2].x = output[i].x + output[i].w + 12
                       /\ output[i + 2].y = output[i].y
        /\ LET groups == svg_stacks_by_category(card, fallback_primary)
           IN \A g \in 1..Len(groups) : svg_rows(groups[g].stacks).widest <= 780

\* a category whose badges were wrapped onto a second row
C4_Witness ==
    /\ pc = "done" /\ renderer = "svg"
    /\ \E i, j \in BadgeIndexes :
          /\ output[i].n = output[j].n
          /\ output[j].y > output[i].y
          /\ Cardinality(RowOf(i)) >= 3

(***************************************************************************)
(* Claims about the renderers (specification SpecRender)                   *)
(***************************************************************************)
Rendered(r) == pc = "done" /\ renderer = r

\* the pieces of a stack section
StackKinds ==
    {"stacks_header", "category", "badge", "badge_icon", "badge_ink", "badge_alt"}

\* C6: when show_stacks is false, what generate_svg and generate_html return
\* has no piece of a stack section (no Stacks header, no category header, no
\* badge), whatever the stacks list holds.
C6_NoStackSectionWhenHidden ==
    ((Rendered("svg") \/ Rendered("html")) /\ ~card.show_stacks) =>
        \A i \in 1..Len(output) : output[i].kind \notin StackKinds

\* a card that hides two stacks was rendered
C6_Witness ==
    /\ Rendered("svg") \/ Rendered("html")
    /\ ~card.show_stacks
    /\ Len(card.stacks) = 2
    /\ \A k \in 1..2 : truthy(get(card.stacks[k].label, Null))
    /\ ~Raised(output)
    /\ Len(output) > 1

\* the headings under which a renderer shows the ten known categories
CategoryHeadings(r) ==
    IF r = "svg" THEN { upper(Str(category_order[k])).s : k \in 1..10 }
    ELSE Range(category_labels_en) \cup Range(category_labels_ko)

\* C7: in generate_svg, generate_html and generate_readme_template every
\* category under which entries are grouped and rendered is one of the ten
\* known categories; an unknown, absent or non-string category falls in tool.
C7_KnownCategoriesOnly ==
    (Rendered("svg") \/ Rendered("html") \/ Rendered("readme")) =>
        \A i \in 1..Len(output) :
            output[i].kind = "category" =>
                output[i].text.s \in CategoryHeadings(renderer)

\* C8: with name and title present, the three renderers return a string
\* and never raise, whichever optional data of the card are absent or None.
C8_NeverRaises ==
    (Rendered("svg") \/ Rendered("html") \/ Rendered("readme")) => ~Raised(output)

Entities ==
    { <<"&", "a", "m", "p", ";">>, <<"&", "l", "t", ";">>, <<"&", "g", "t", ";">>,
      <<"&", "q", "u", "o", "t", ";">>, <<"&", "#", "x", "2", "7", ";">> }

IsEntityAt(s, i) ==
    \E e \in Entities :
        /\ i + Len(e) - 1 <= Len(s)
        /\ [j \in 1..Len(e) |-> LowerChar(s[i + j - 1])] = e

\* no markup character is left in v: no <, >, quote, and no & but in an entity
IsEscaped(v) ==
    v.tag = "str" =>
        \A i \in 1..Len(v.s) :
            /\ v.s[i] \notin {"<", ">", "\"", "'"}
            /\ v.s[i] = "&" => IsEntityAt(v.s, i)

\* C9: whatever the three renderers put into element text, into attribute
\* values and into comments is entity-escaped, so that no <, >, &, quote or
\* "-->" of the card's strings reaches the output as it was given.
C9_OnlyEscapedText ==
    (Rendered("svg") \/ Rendered("html") \/ Rendered("readme")) =>
        \A i \in 1..Len(output) :
            /\ IsEscaped(output[i].text)
            /\ IsEscaped(output[i].attr)
            /\ IsEscaped(output[i].comment)

StatTiles == { i \in 1..Len(output) : output[i].kind = "stat_box" }

\* C10: when show_github_stats is true, generate_svg draws the four tiles of
\* the 2 x 2 grid below the header, whatever the snapshot holds and also when
\* there is no snapshot.
C10_OneTilePerMetric ==
    (Rendered("svg") /\ card.show_github_stats /\ ~Raised(output)) =>
        \E h \in 1..Len(output) :
            /\ output[h].kind = "stats_header"
            /\ { <<output[i].x, output[i].y>> : i \in StatTiles }
                 = { <<40 + col * (box_w + box_gap),
                       output[h].y + 28 + 24 + row * (box_h + box_gap)>> :
                       col \in 0..1, row \in 0..1 }

\* C11: no renderer changes what it was given: across every call of
\* generate_svg, generate_html, generate_readme_template, generate_svg_banner
\* and generate_svg_contact the card, with its stacks, contacts and
\* repositories and their entries, and the statistics snapshot stay as they were.
C11_InputsUnchanged ==
    [][card' = card /\ stats' = stats /\ gradient' = gradient
         /\ primary_color' = primary_color]_vars

\* a renderer has grouped the two stacks of a card, one of them without label
C11_Witness ==
    /\ pc = "done"
    /\ renderer \in {"svg", "html", "readme"}
    /\ card.show_stacks
    /\ Len(card.stacks) = 2
    /\ card.stacks[1].label = Absent
    /\ \E i \in 1..Len(output) : output[i].kind = "badge"

(***************************************************************************)
(* Claims about the image path                                             *)
(***************************************************************************)

\* the call of generate_image_screenshot is over
Returned == step \in {"returned", "responded"} /\ request.card

\* the endpoint answers 503 exactly when it got None for an existing card
Answers503OnNone ==
    step = "responded" => (response = 503 <=> (request.card /\ screenshot = "None"))

WaitSteps == {"navigation", "selector", "network_idle", "fonts", "images", "stylesheets", "reload", "screenshot"}

\* C13: every wait step of generate_image_screenshot is given a timeout, and
\* a call of the function eventually returns whatever the browser does.
C13_TimeoutsSoReturns ==
    /\ [](step = "await" =>
            (call_at(line).waits_for \in WaitSteps => call_at(line).timeout > 0))
    /\ ((step = "call") ~> (step = "returned"))

(***************************************************************************)
(* Claims about the contrast of badges                                     *)
(***************************************************************************)

\* a stack color of the form #rgb or #rrggbb
IsBadgeHex(v) ==
    /\ v.tag = "str"
    /\ Len(v.s) \in {4, 7}
    /\ v.s[1] = "#"
    /\ \A i \in 2..Len(v.s) : v.s[i] \in HexChars

\* channel k (1, 2, 3) of such a color
BadgeChannel(h, k) ==
    IF Len(h) = 4 THEN int16(<<h[k + 1], h[k + 1]>>)
    ELSE int16(<<h[2 * k], h[2 * k + 1]>>)

\* 299 R + 587 G + 114 B > 127500
LightBackground(h) ==
    299 * BadgeChannel(h, 1) + 587 * BadgeChannel(h, 2) + 114 * BadgeChannel(h, 3) > 127500

\* the dark variant of the text or icon color
IsDarkInk(attr) ==
    /\ attr.tag = "str"
    /\ Len(attr.s) >= 5
    /\ SubSeq(attr.s, Len(attr.s) - 4, Len(attr.s)) = <<"b", "l", "a", "c", "k">>

\* C14: in what generate_svg, generate_html and generate_readme_template
\* return for a card with one stack of a hex color, the text and the icon of
\* the badge are of the dark variant exactly when 299 R + 587 G + 114 B >
\* 127500 for the channels of that color.
C14_SameContrastRule ==
    ( /\ Rendered("svg") \/ Rendered("html") \/ Rendered("readme")
      /\ card.show_stacks
      /\ Len(card.stacks) = 1
      /\ IsBadgeHex(card.stacks[1].color) ) =>
        \A i \in 1..Len(output) :
            output[i].kind \in {"badge_ink", "badge_icon"} =>
                (IsDarkInk(output[i].attr) <=> LightBackground(card.stacks[1].color.s))

(***************************************************************************)
(* Claims about the sections of generate_html                              *)
(***************************************************************************)
ContactKinds == {"contact_header", "contact_card", "contact_icon", "contact_label", "contact_value"}

StatsKinds == {"stats_header", "stat_box"}

RepositoryKinds == {"repositories_header", "repo_card", "repo_language", "repo_description"}

\* a piece of one of the kinds is in the output
Shows(kinds) == \E i \in 1..Len(output) : output[i].kind \in kinds

\* C15: what generate_html returns has the pieces of an optional section
\* (stacks, contacts, tertiary badge, statistics, repositories) only when the
\* flag of the section is set and the section has something to show: a
\* badge with a non-empty label, a contact with a non-empty value, a handle,
\* a repository.
C15_SectionsOnlyWhenFlaggedAndFilled ==
    (Rendered("html") /\ ~Raised(output)) =>
        /\ Shows(StackKinds) =>
              /\ card.show_stacks
              /\ \E i \in 1..Len(output) :
                    output[i].kind = "badge" /\ truthy(output[i].text)
        /\ Shows(ContactKinds) =>
              /\ card.show_contact
              /\ \E k \in 1..Len(card.contacts) :
                    truthy(get(card.contacts[k].value, Str(<<>>)))
        /\ Shows({"baekjoon"}) => (card.show_baekjoon /\ truthy(card.baekjoon_id))
        /\ Shows(StatsKinds) => card.show_github_stats
        /\ Shows(RepositoryKinds) => card.repositories # <<>>

(***************************************************************************)
(* Claims about the URLs of generate_readme_template                       *)
(***************************************************************************)

\* the text with every "-" and "_" doubled and every blank written as sp
RECURSIVE BadgeEscaped(_, _)
BadgeEscaped(t, sp) ==
    IF t = <<>> THEN <<>>
    ELSE (CASE Head(t) = "-" -> <<"-", "-">>
            [] Head(t) = "_" -> <<"_", "_">>
            [] Head(t) = " " -> sp
            [] OTHER -> <<Head(t)>>) \o BadgeEscaped(Tail(t), sp)

\* the two forms the convention of the badge service allows
EscapedForms(t) == {BadgeEscaped(t, <<"%", "2", "0">>), BadgeEscaped(t, <<"_">>)}

\* the color of a stack as it goes into the URL: without its "#"
ColorCode(h) == SelectSeq(h, LAMBDA ch : ch # "#")

\* C16: in what generate_readme_template returns, the stack label and the
\* stack color of a badge URL, the display label of a contact badge URL and
\* the handle of the tertiary badge URL are written with every "-", "_"
\* and blank escaped ("--", "__", "%20" or "_").
C16_UrlTextEscaped ==
    (Rendered("readme") /\ ~Raised(output)) =>
        \A i \in 1..Len(output) :
            /\ output[i].kind = "baekjoon" =>
                  output[i].attr.s \in EscapedForms(card.baekjoon_id.s)
            /\ (output[i].kind = "contact_badge" /\ Len(card.contacts) = 1) =>
                  output[i].attr.s \in
                     EscapedForms(display_label_of(get(card.contacts[1].label, Str(<<>>)),
                                                   get(card.contacts[1].type, Str(<<>>))).s)
            /\ (output[i].kind = "badge" /\ Len(card.stacks) = 1
                   /\ card.stacks[1].color.tag = "str") =>
                  \E label \in EscapedForms(output[i + 1].attr.s) :
                  \E color \in EscapedForms(ColorCode(card.stacks[1].color.s)) :
                      output[i].attr.s = label \o <<"-">> \o color

(***************************************************************************)
(* Claims about the category headings                                      *)
(***************************************************************************)

\* the position in category_order of the category of an entry
CategoryIndex(stack) == CHOOSE k \in 1..10 : category_order[k] = normalize_category(stack)

\* the heading the language flag of the card selects for the entry
FlagHeading(c, stack) ==
    IF c.stack_label_lang = Str(<<"k", "o">>)
    THEN category_labels_ko[CategoryIndex(stack)]
    ELSE category_labels_en[CategoryIndex(stack)]

\* C17: in what generate_svg, generate_html and generate_readme_template
\* return for a card with one stack, the category heading is the label of
\* the entry's category in the dictionary of the card's language flag:
\* Korean for 'ko', English for 'en' and for an absent or invalid flag.
C17_HeadingFromLabelDictionary ==
    ( /\ Rendered("svg") \/ Rendered("html") \/ Rendered("readme")
      /\ ~Raised(output)
      /\ Len(card.stacks) = 1 ) =>
        \A i \in 1..Len(output) :
            output[i].kind = "category" =>
                output[i].text = Str(FlagHeading(card, card.stacks[1]))

(***************************************************************************)
(* Claims about the OAuth state                                            *)
(***************************************************************************)

\* C18: over any sequence of logins, callbacks, clean-ups and passing time,
\* validate_state returns True at most once for a state, and only for a
\* state that generate_state returned and that is not older than 10
\* minutes; a validate_state on a stored state, whatever it returns, leaves
\* the state out of the store; and the callback answers 400 whenever
\* validate_state returned False.
C18_StateIsOneTimeUse ==
    /\ [](\A state \in States : accepted[state] <= 1)
    /\ [][\A state \in States :
            accepted'[state] > accepted[state] =>
                /\ state \in issued
                /\ stored(state_store, state)
                /\ now <= created_at_of(state_store, state) + 10]_vars
    /\ [][\A state \in States :
            (GithubCallback(state) /\ stored(state_store, state)) =>
                ~stored(state_store', state)]_vars
    /\ []((last.op = "github_callback" /\ ~last.valid) => last.status = 400)

\* a state was accepted once and its replay was answered with 400
C18_Witness ==
    /\ last.op = "github_callback"
    /\ ~last.valid
    /\ last.status = 400
    /\ accepted[last.state] = 1

(***************************************************************************)
(* Claims about repeated colours                                           *)
(***************************************************************************)

\* the first two colour tokens of the gradient have the same hex form
FirstTwoRepeat ==
    /\ Cardinality(TokenStarts(gradient)) >= 2
    /\ TokenColor(gradient, First(TokenStarts(gradient)))
         = TokenColor(gradient, Second(TokenStarts(gradient)))

width_of_supplied(label) == Min(200, Max(60, 8 * Len(label.s) + 24))

\* C20: in what generate_svg returns, every stack of the card has a badge
\* whose width, which is also the width used to count the rows for the canvas
\* height, is min(200, max(60, 8 n + 24)) for the number n of characters of
\* the label of the stack as the card record supplies it.
C20_WidthFromSuppliedLabel ==
    (pc = "done" /\ renderer = "svg" /\ card.show_stacks
        /\ \A k \in 1..Len(card.stacks) : card.stacks[k].label.tag = "str") =>
        \A k \in 1..Len(card.stacks) :
            \E i \in BadgeIndexes :
                /\ output[i].w = width_of_supplied(card.stacks[k].label)
                /\ output[i].w = badge_width(output[i].text)

(***************************************************************************)
(* Claims about cut texts (specification SpecTruncate)                     *)
(***************************************************************************)
\* the value of the one contact of the card, as the card holds it
SuppliedValue == card.contacts[1].value.s

\* the pieces that show a contact value
ValueIndexes == { i \in 1..Len(output) : output[i].kind = "contact_value" }

IsPrefix(p, s) == Len(p) <= Len(s) /\ SubSeq(s, 1, Len(p)) = p

\* C21: generate_svg shows a contact value of at most 40 characters in full
\* (its escaped text, no ellipsis) and a longer one as the text of its first
\* 40 characters followed by "...", the characters counted being those of
\* the value in the card.
C21_CutAt40SuppliedCharacters ==
    Rendered("svg") =>
        \A i \in ValueIndexes :
            IF Len(SuppliedValue) <= 40
            THEN output[i].text.s = escape_chars(SuppliedValue)
            ELSE output[i].text.s
                   = escape_chars(Take(SuppliedValue, 40)) \o <<".", ".", ".">>

(***************************************************************************)
(* Claims about the category an entry is grouped under                     *)
(***************************************************************************)
\* the category string of an entry without the blanks around it, in lower case
TrimmedLower(category) == lower(Str(strip(category.s))).s

\* the place in category_order of the group the statement gives an entry: that
\* of its trimmed lower-case category when it is a known one, that of tool
\* otherwise
TrimmedGroup(category) ==
    IF TrimmedLower(category) \in Range(category_order)
    THEN CHOOSE k \in 1..10 : category_order[k] = TrimmedLower(category)
    ELSE 10

\* C22: in what generate_html and generate_readme_template return for a card
\* with one stack whose category is a string, the stack is grouped under the
\* known category that its category string gives once trimmed and put in
\* lower case ("Backend " under backend), and under tool when that form is no
\* known category.
C22_TrimmedLowercaseCategory ==
    ( /\ Rendered("html") \/ Rendered("readme")
      /\ ~Raised(output)
      /\ card.show_stacks
      /\ Len(card.stacks) = 1
      /\ card.stacks[1].category.tag = "str" ) =>
        \A i \in 1..Len(output) :
            output[i].kind = "category" =>
                output[i].n = TrimmedGroup(card.stacks[1].category)

(***************************************************************************)
(* Claims about the icon of a stack                                        *)
(***************************************************************************)
\* the candidate key the statement derives from a label: lower case, blanks
\* to hyphens, periods stripped, "++" to "plusplus"
CandidateKey(label) ==
    replace_plusplus(replace(replace(lower(Str(label)).s, " ", <<"-">>), ".", <<>>))

\* the candidate, then the candidate without hyphens, without periods,
\* without blanks
CandidateKeys(label) ==
    << CandidateKey(label),
       replace(CandidateKey(label), "-", <<>>),
       replace(CandidateKey(label), ".", <<>>),
       replace(CandidateKey(label), " ", <<>>) >>

\* the icon the statement gives an entry, <<>> for no icon; a key that is
\* absent, None or empty counts as absent
StatedIcon(stack) ==
    IF truthy(stack.key)
    THEN IF stack.key.s \in STACK_ICON_KEYS THEN STACK_ICON_MAP(stack.key.s) ELSE <<>>
    ELSE LET tried == CandidateKeys(stack.label.s)
             hits == { v \in 1..4 : tried[v] \in STACK_ICON_KEYS }
         IN IF hits = {} THEN <<>>
            ELSE STACK_ICON_MAP(tried[CHOOSE v \in hits : \A u \in hits : v <= u])

\* the icons shown in the output, without the colour that follows the "/"
ShownIcons ==
    { SubSeq(output[i].attr.s, 1,
             (CHOOSE j \in 1..Len(output[i].attr.s) : output[i].attr.s[j] = "/") - 1) :
        i \in { i \in 1..Len(output) : output[i].kind = "badge_icon" } }

\* a card with one stack that has a label and a plain colour
OneLabelledStack ==
    /\ card.show_stacks
    /\ Len(card.stacks) = 1
    /\ truthy(card.stacks[1].label)
    /\ card.stacks[1].color = Str(S_blue)

C25_CppIconFromLabel ==
    ( /\ Rendered("html") \/ Rendered("readme")
      /\ OneLabelledStack
      /\ ~truthy(card.stacks[1].key) ) =>
        /\ card.stacks[1].label.s \in {<<"C", "+", "+">>, <<"c", "+", "+">>} =>
              ShownIcons = {STACK_ICON_MAP(<<"c", "p", "p">>)}
        /\ card.stacks[1].label.s = <<"N", "o", "d", "e", ".", "j", "s">> =>
              ShownIcons = {STACK_ICON_MAP(<<"n", "o", "d", "e", "j", "s">>)}

(***************************************************************************)
(* Claims about the link of a contact                                      *)
(***************************************************************************)
IsUrl(value) ==
    startswith(value, <<"h", "t", "t", "p", ":", "/", "/">>)
      \/ startswith(value, <<"h", "t", "t", "p", "s", ":", "/", "/">>)

\* the link target the statement gives a value
StatedHref(value) ==
    IF "@" \in Range(value) /\ ~IsUrl(value)
    THEN <<"m", "a", "i", "l", "t", "o", ":">> \o value
    ELSE IF IsUrl(value) THEN value
    ELSE <<"h", "t", "t", "p", "s", ":", "/", "/">> \o value

\* the link targets of the contacts in an output
Hrefs(out) == { out[i].attr : i \in { i \in 1..Len(out) : out[i].kind = "contact_card" } }

\* a card that shows one contact with a value
OneValuedContact ==
    /\ card.show_contact
    /\ Len(card.contacts) = 1
    /\ truthy(card.contacts[1].value)

\* C23: in what generate_html returns for a card with one contact, the link
\* target is "mailto:" and the value when the value holds '@' and does not
\* start with "http://" or "https://", the value itself when it starts with
\* one of the two, and "https://" and the value in every other case (the
\* value as written into the page, that is html-escaped).
C23_HrefInferredFromValue ==
    (Rendered("html") /\ OneValuedContact /\ ~Raised(output)) =>
        Hrefs(output) = {Str(StatedHref(escape_chars(card.contacts[1].value.s)))}

\* C29: for a card with one contact that both render without raising, the
\* link target in what generate_html returns is the link target in what
\* generate_readme_template returns (the former html-escaped), whatever the
\* value starts with.
C29_SameLinkInHtmlAndReadme ==
    ( /\ Rendered("html") \/ Rendered("readme")
      /\ OneValuedContact
      /\ ~Raised(generate_html(card, gradient, primary_color))
      /\ ~Raised(generate_readme_template(card, stats)) ) =>
        Hrefs(generate_html(card, gradient, primary_color))
          = { escape(href) : href \in Hrefs(generate_readme_template(card, stats)) }

(***************************************************************************)
(* Claims about the visitor count (specification SpecVisit)                *)
(***************************************************************************)
AllVisitsOver == \A r \in Visits : visits[r].pc \in {"responded", "failed"}

\* C26: once all the record_visit requests of a date are over, however they
\* were interleaved, there is one row for the date, its visitors count is
\* the number of requests, and no request failed.
C26_OneRowCountingEveryVisit ==
    AllVisitsOver =>
        /\ Len(visitor_stats) = 1
        /\ visitor_stats[1].date = today
        /\ visitor_stats[1].visitors = MaxVisits
        /\ \A r \in Visits : visits[r].pc = "responded" /\ visits[r].status = 200

CanvasHeight == output[CHOOSE i \in 1..Len(output) : output[i].kind = "svg"].h

\* the rows in which the badges of the category at position g are drawn
DrawnRows(g) == Cardinality({ output[i].y : i \in { j \in BadgeIndexes : output[j].n = g } })

\* C28: in what generate_svg returns, the bottom edge of every badge,
\* contact card and statistics tile is at most the height of the svg, and
\* for every category the rows counted for the height are as many as the
\* rows its badges are drawn in.
C28_DrawnInsideCanvas ==
    (pc = "done" /\ renderer = "svg" /\ ~Raised(output)) =>
        /\ \A i \in 1..Len(output) :
              output[i].kind \in {"badge", "contact_card", "stat_box"} =>
                  output[i].y + output[i].h <= CanvasHeight
        /\ LET groups == svg_stacks_by_category(card, fallback_primary)
           IN \A g \in 1..Len(groups) : svg_rows(groups[g].stacks).rows = DrawnRows(g)

(***************************************************************************)
(* Claims about the entities in a cut text (specification SpecTruncate)    *)
(***************************************************************************)
\* the pieces that hold a text that may have been cut
CutTextIndexes ==
    { i \in 1..Len(output) : output[i].kind \in {"contact_value", "repo_description"} }

\* every & of the text starts a whole entity
WholeEntities(text) ==
    \A i \in 1..Len(text) : text[i] = "&" => IsEntityAt(text, i)

\* C30: in what generate_svg, generate_svg_contact and
\* generate_svg_repository_banner return, the contact value (cut at 40 and
\* at 30) and the description (cut at 80) hold no & that is not the start of
\* a whole entity: the cut never falls inside an entity.
C30_CutKeepsEntitiesWhole ==
    ( /\ Rendered("svg") \/ Rendered("svg_contact") \/ Rendered("svg_repository_banner")
      /\ ~Raised(output) ) =>
        \A i \in CutTextIndexes : WholeEntities(output[i].text.s)

====
